---------------------------- MODULE Spec2Model ----------------------------
(***************************************************************************)
(* Spend Wise Buddy (src/tracker_app_final.py): the category registry, the *)
(* budget ledger, the expense and income stores and the savings goals.     *)
(*                                                                         *)
(* Texts are sequences of one-character strings, so that strip() and       *)
(* lower() are computed and not assumed.  A date text is the triple of its *)
(* three hyphen-separated fields, each a sequence of characters.  Amounts  *)
(* are whole currency units (the code uses floats).                        *)
(*                                                                         *)
(* Every handler of the program is an operator from the database (a record *)
(* of the six tables and the AUTOINCREMENT counters) and the answers       *)
(* typed at its prompts to the database it leaves and what it printed; the *)
(* actions apply the handlers to the state.                                *)
(*                                                                         *)
(* A behaviour of Spec is one stay in one menu of user_main_menu, on a     *)
(* database file that is new or that earlier handler runs have filled      *)
(* (SeedDB); from the expenses and the income menu the user may go on to   *)
(* the reports menu.  SpecConc is two sessions on one database file, both  *)
(* in browse_goal_progress.                                                *)
(***************************************************************************)
EXTENDS Integers, Sequences, FiniteSets, TLC

VARIABLES
    users_expenses,      \* rows [id, date_of_spending, type_of_spending, amount_spent], in id order
    users_incomes,       \* rows [id, source_of_income, sum_of_income, date_of_income], in id order
    budget_calculator,   \* set of rows [name_of_category, budget_value, type_of_category]
    saving_goals,        \* rows [goal_ID_No, name_of_goal, commencing_date, finish_date,
                         \*       monthly_target_amount, saved_up_so_far], in id order
    income_categories,   \* set of rows [name_of_category, description]
    expense_categories,  \* set of rows [name_of_category, description]
    sqlite_sequence,     \* AUTOINCREMENT: the largest id ever given, per table
    last,                \* what the last handler printed: [op, out, info]
    contributed,         \* history: per goal name, the contributions accepted so far
    menu,                \* user_main_menu: the menu this session works in
    callers              \* two concurrent sessions inside browse_goal_progress

vars == <<users_expenses, users_incomes, budget_calculator, saving_goals,
          income_categories, expense_categories, sqlite_sequence, last,
          contributed, menu, callers>>

tables == <<users_expenses, users_incomes, budget_calculator, saving_goals,
            income_categories, expense_categories>>

(***************************************************************************)
(* Bounds of the model.                                                    *)
(***************************************************************************)
MaxRows == 2
MaxGoals == 2

(***************************************************************************)
(* Texts: str.strip(), str.lower(), SQL TRIM() and LOWER().                *)
(***************************************************************************)
NULL == <<"<null>">>

IsSpace(c) == c = " "

\* The capital letters of the texts the model types in.
Capitals ==
    ("F" :> "f") @@ ("G" :> "g") @@ ("Y" :> "y") @@ ("N" :> "n") @@
    ("I" :> "i") @@ ("E" :> "e") @@ ("M" :> "m")

LowerChar(c) == IF c \in DOMAIN Capitals THEN Capitals[c] ELSE c

RECURSIVE LStrip(_)
LStrip(s) ==
    IF s = <<>> THEN s
    ELSE IF IsSpace(Head(s)) THEN LStrip(Tail(s)) ELSE s

RECURSIVE RStrip(_)
RStrip(s) ==
    IF s = <<>> THEN s
    ELSE IF IsSpace(s[Len(s)]) THEN RStrip(SubSeq(s, 1, Len(s) - 1)) ELSE s

strip(s) == RStrip(LStrip(s))

lower(s) == [i \in DOMAIN s |-> LowerChar(s[i])]

\* SQL: LOWER(col), LOWER(TRIM(col)); a NULL column compares equal to nothing.
SqlLower(s) == lower(s)
SqlLowerTrim(s) == lower(strip(s))

(***************************************************************************)
(* Dates: datetime.strptime(text, "%Y-%m-%d").                             *)
(***************************************************************************)
DigitVal ==
    ("0" :> 0) @@ ("1" :> 1) @@ ("2" :> 2) @@ ("3" :> 3) @@ ("4" :> 4) @@
    ("5" :> 5) @@ ("6" :> 6) @@ ("7" :> 7) @@ ("8" :> 8) @@ ("9" :> 9)

AllDigits(f) == \A i \in DOMAIN f : f[i] \in DOMAIN DigitVal

RECURSIVE Num(_)
Num(f) ==
    IF f = <<>> THEN 0
    ELSE 10 * Num(SubSeq(f, 1, Len(f) - 1)) + DigitVal[f[Len(f)]]

IsLeap(y) == (y % 4 = 0 /\ y % 100 # 0) \/ y % 400 = 0

DaysInMonth(y, m) ==
    IF m = 2 THEN (IF IsLeap(y) THEN 29 ELSE 28)
    ELSE IF m \in {4, 6, 9, 11} THEN 30 ELSE 31

\* %Y takes exactly four digits, %m and %d one or two; the date must exist.
validate_date(date_text) ==
    /\ Len(date_text) = 3
    /\ \A k \in 1..3 : AllDigits(date_text[k])
    /\ Len(date_text[1]) = 4
    /\ Len(date_text[2]) \in {1, 2}
    /\ Len(date_text[3]) \in {1, 2}
    /\ Num(date_text[1]) >= 1
    /\ Num(date_text[2]) \in 1..12
    /\ Num(date_text[3]) \in 1..DaysInMonth(Num(date_text[1]), Num(date_text[2]))

\* The datetime a valid text parses to, as <<year, month, day>>.
strptime(date_text) ==
    <<Num(date_text[1]), Num(date_text[2]), Num(date_text[3])>>

\* The comparison "<" in place of "<=".
DateLess(a, b) ==
    \/ a[1] < b[1]
    \/ a[1] = b[1] /\ a[2] < b[2]
    \/ a[1] = b[1] /\ a[2] = b[2] /\ a[3] < b[3]

\* datetime <= datetime
DateLeq(a, b) ==
    \/ a[1] < b[1]
    \/ a[1] = b[1] /\ a[2] < b[2]
    \/ a[1] = b[1] /\ a[2] = b[2] /\ a[3] <= b[3]

\* The texts 'income', 'expense' and 'y' the code compares with.
INCOME == <<"i", "n", "c", "o", "m", "e">>
EXPENSE == <<"e", "x", "p", "e", "n", "s", "e">>
YES == <<"y">>

\* Any answer that is not empty taken as a yes.
ConfirmedUnlessEmpty(answer) == strip(answer) # <<>>

\* answer = input(...).strip().lower(); if answer == "y":
Confirmed(answer) == lower(strip(answer)) = YES

(***************************************************************************)
(* The database.                                                           *)
(***************************************************************************)
DB ==
    [users_expenses |-> users_expenses,
     users_incomes |-> users_incomes,
     budget_calculator |-> budget_calculator,
     saving_goals |-> saving_goals,
     income_categories |-> income_categories,
     expense_categories |-> expense_categories,
     sqlite_sequence |-> sqlite_sequence]

\* build_a_financial_db on a fresh file: six empty tables.
EmptyDB ==
    [users_expenses |-> <<>>,
     users_incomes |-> <<>>,
     budget_calculator |-> {},
     saving_goals |-> <<>>,
     income_categories |-> {},
     expense_categories |-> {},
     sqlite_sequence |-> [users_expenses |-> 0, users_incomes |-> 0, saving_goals |-> 0]]

\* What a handler returns: the database it leaves and what it printed.
Result(db, out, info) == [db |-> db, out |-> out, info |-> info]

CategoryRow(name, description) ==
    [name_of_category |-> name, description |-> description]

\* if category_type == "income": income_categories, else: expense_categories
CategoryTable(db, category_type) ==
    IF category_type = INCOME THEN db.income_categories ELSE db.expense_categories

WithCategoryTable(db, category_type, rows) ==
    IF category_type = INCOME
    THEN [db EXCEPT !.income_categories = rows]
    ELSE [db EXCEPT !.expense_categories = rows]

\* INSERT INTO <categories> under PRIMARY KEY (name_of_category): a row whose
\* key is already stored raises sqlite3.IntegrityError and nothing is written.
InsertCategory(db, category_type, row) ==
    IF \E r \in CategoryTable(db, category_type) :
           r.name_of_category = row.name_of_category
    THEN db
    ELSE WithCategoryTable(db, category_type,
                           CategoryTable(db, category_type) \cup {row})

\* The SELECT of existing_category with the two tables exchanged.
SelectCategoryOfOtherType(db, category_type, name) ==
    {r \in CategoryTable(db, IF category_type = INCOME THEN EXPENSE ELSE INCOME) :
        SqlLower(r.name_of_category) = name}

\* SELECT 1 FROM <categories> WHERE LOWER(name_of_category) = ?
SelectCategory(db, category_type, name) ==
    {r \in CategoryTable(db, category_type) : SqlLower(r.name_of_category) = name}

\* existing_category comparing the name as it was typed.
existing_category_as_typed(db, category_name, category_type) ==
    SelectCategory(db, category_type, category_name) # {}

existing_category(db, category_name, category_type) ==
    SelectCategory(db, category_type, lower(strip(category_name))) # {}

\* add_category that inserts nothing.
add_category_skipped(db, category_name, category_type) == db

add_category(db, category_name, category_type) ==
    InsertCategory(db, category_type, CategoryRow(category_name, NULL))


\* add_expense_category without its check for a category that already exists.
add_expense_category_unchecked(db, category_name) ==
    LET name == lower(strip(category_name)) IN
    IF name = <<>> THEN Result(db, "EmptyName", <<>>)
    ELSE Result(InsertCategory(db, EXPENSE, CategoryRow(name, NULL)), "Added", <<>>)

add_expense_category(db, category_name) ==
    LET name == lower(strip(category_name)) IN
    IF name = <<>> THEN Result(db, "EmptyName", <<>>)
    ELSE IF SelectCategory(db, EXPENSE, name) # {}
    THEN Result(db, "Duplicate", <<>>)
    ELSE Result(InsertCategory(db, EXPENSE, CategoryRow(name, NULL)), "Added", <<>>)

\* category_name is NULL for the menu's call without an argument; typed and
\* description are the answers to the two prompts.
add_income_category(db, category_name, typed, description) ==
    LET given == IF category_name = NULL \/ category_name = <<>>
                 THEN strip(typed) ELSE category_name
        name == lower(strip(given))
    IN
    IF name = <<>> THEN Result(db, "EmptyName", <<>>)
    ELSE IF SelectCategory(db, INCOME, name) # {}
    THEN Result(db, "Duplicate", <<>>)
    ELSE Result(InsertCategory(db, INCOME, CategoryRow(name, strip(description))),
                "Added", <<>>)

(***************************************************************************)
(* Budget ledger.                                                          *)
(***************************************************************************)
BudgetRow(name, value, type) ==
    [name_of_category |-> name, budget_value |-> value, type_of_category |-> type]

\* INSERT OR REPLACE as under a key of name and type together.
InsertOrReplaceBudgetPerType(db, row) ==
    [db EXCEPT !.budget_calculator =
        {r \in @ : <<r.name_of_category, r.type_of_category>>
                      # <<row.name_of_category, row.type_of_category>>} \cup {row}]

\* INSERT OR REPLACE under PRIMARY KEY (name_of_category): the row stored
\* under the key, if any, is deleted and the new row is written.
InsertOrReplaceBudget(db, row) ==
    [db EXCEPT !.budget_calculator =
        {r \in @ : r.name_of_category # row.name_of_category} \cup {row}]

\* set_budget_for_category without its check of the category type.
set_budget_for_category_untyped(db, category_name_in, budget_value, category_type_in, add_new) ==
    LET category_name == lower(strip(category_name_in))
        category_type == lower(strip(category_type_in))
        row == BudgetRow(category_name, budget_value, category_type)
    IN
    IF budget_value <= 0 THEN Result(db, "InvalidAmount", <<budget_value>>)
    ELSE IF ~existing_category(db, category_name, category_type)
    THEN IF Confirmed(add_new)
         THEN Result(InsertOrReplaceBudget(
                         add_category(db, category_name, category_type), row),
                     "BudgetSet", <<budget_value>>)
         ELSE Result(db, "BudgetNotSet", <<>>)
    ELSE Result(InsertOrReplaceBudget(db, row), "BudgetSet", <<budget_value>>)

set_budget_for_category(db, category_name_in, budget_value, category_type_in, add_new) ==
    LET category_name == lower(strip(category_name_in))
        category_type == lower(strip(category_type_in))
        row == BudgetRow(category_name, budget_value, category_type)
    IN
    IF budget_value <= 0 THEN Result(db, "InvalidAmount", <<budget_value>>)
    ELSE IF category_type \notin {INCOME, EXPENSE}
    THEN Result(db, "InvalidCategoryType", <<>>)
    ELSE IF ~existing_category(db, category_name, category_type)
    THEN IF Confirmed(add_new)
         THEN Result(InsertOrReplaceBudget(
                         add_category(db, category_name, category_type), row),
                     "BudgetSet", <<budget_value>>)
         ELSE Result(db, "BudgetNotSet", <<>>)
    ELSE Result(InsertOrReplaceBudget(db, row), "BudgetSet", <<budget_value>>)

\* budget_menu, choice 1: the menu normalises the name and the type, refuses a
\* budget <= 0 itself and prints the ValueError of an invalid type.
budget_menu_set(db, name_in, budget_value, type_in, add_new) ==
    IF budget_value <= 0 THEN Result(db, "InvalidAmount", <<budget_value>>)
    ELSE set_budget_for_category(db, lower(strip(name_in)), budget_value,
                                 lower(strip(type_in)), add_new)

\* display_category_budget with the budget looked up by name alone.
display_category_budget_by_name(db, category_name_in, category_type_in) ==
    LET category_name == lower(strip(category_name_in))
        category_type == lower(strip(category_type_in))
        found == {r \in db.budget_calculator :
                     SqlLowerTrim(r.name_of_category) = category_name}
    IN
    IF ~existing_category(db, category_name, category_type)
    THEN Result(db, "CategoryNotFound", <<>>)
    ELSE IF found # {}
    THEN Result(db, "Budget", <<(CHOOSE r \in found : TRUE).budget_value>>)
    ELSE Result(db, "NoBudget", <<>>)

\* SELECT budget_value FROM budget_calculator WHERE LOWER(TRIM(name)) = ?
\* AND LOWER(TRIM(type)) = ?
display_category_budget(db, category_name_in, category_type_in) ==
    LET category_name == lower(strip(category_name_in))
        category_type == lower(strip(category_type_in))
        found == {r \in db.budget_calculator :
                     /\ SqlLowerTrim(r.name_of_category) = category_name
                     /\ SqlLowerTrim(r.type_of_category) = category_type}
    IN
    IF ~existing_category(db, category_name, category_type)
    THEN Result(db, "CategoryNotFound", <<>>)
    ELSE IF found # {}
    THEN Result(db, "Budget", <<(CHOOSE r \in found : TRUE).budget_value>>)
    ELSE Result(db, "NoBudget", <<>>)

(***************************************************************************)
(* Transaction store.  A prompt that repeats until its answer is valid     *)
(* takes the sequence of answers typed at it; when none is valid the       *)
(* handler is still at the prompt and has written what it wrote before it. *)
(***************************************************************************)
RECURSIVE FirstValidDate(_, _)
FirstValidDate(attempts, k) ==
    IF k > Len(attempts) THEN 0
    ELSE IF validate_date(attempts[k]) THEN k ELSE FirstValidDate(attempts, k + 1)

\* The amount prompt with the comparison "< 0" in place of "<= 0".
RECURSIVE FirstNonNegative(_, _)
FirstNonNegative(attempts, k) ==
    IF k > Len(attempts) THEN 0
    ELSE IF attempts[k] < 0 THEN FirstNonNegative(attempts, k + 1) ELSE k

\* while True: amount = float(input()); if amount <= 0: continue; break
RECURSIVE FirstPositive(_, _)
FirstPositive(attempts, k) ==
    IF k > Len(attempts) THEN 0
    ELSE IF attempts[k] <= 0 THEN FirstPositive(attempts, k + 1) ELSE k

\* The id taken from the number of rows stored instead of AUTOINCREMENT.
InsertExpenseByCount(db, date_of_spending, type_of_spending, amount_spent) ==
    LET id == Len(db.users_expenses) + 1 IN
    [db EXCEPT
        !.users_expenses = Append(@, [id |-> id,
                                      date_of_spending |-> date_of_spending,
                                      type_of_spending |-> type_of_spending,
                                      amount_spent |-> amount_spent]),
        !.sqlite_sequence.users_expenses = id]

\* INSERT INTO users_expenses: AUTOINCREMENT gives the largest id ever given + 1.
InsertExpense(db, date_of_spending, type_of_spending, amount_spent) ==
    LET id == db.sqlite_sequence.users_expenses + 1 IN
    [db EXCEPT
        !.users_expenses = Append(@, [id |-> id,
                                      date_of_spending |-> date_of_spending,
                                      type_of_spending |-> type_of_spending,
                                      amount_spent |-> amount_spent]),
        !.sqlite_sequence.users_expenses = id]

\* The id of a rowid table without AUTOINCREMENT: the largest id stored + 1.
InsertIncomeAfterLargest(db, source_of_income, sum_of_income, date_of_income) ==
    LET id == IF db.users_incomes = <<>> THEN 1
              ELSE db.users_incomes[Len(db.users_incomes)].id + 1
    IN
    [db EXCEPT
        !.users_incomes = Append(@, [id |-> id,
                                     source_of_income |-> source_of_income,
                                     sum_of_income |-> sum_of_income,
                                     date_of_income |-> date_of_income]),
        !.sqlite_sequence.users_incomes = id]

\* INSERT INTO users_incomes: AUTOINCREMENT gives the largest id ever given + 1.
InsertIncome(db, source_of_income, sum_of_income, date_of_income) ==
    LET id == db.sqlite_sequence.users_incomes + 1 IN
    [db EXCEPT
        !.users_incomes = Append(@, [id |-> id,
                                     source_of_income |-> source_of_income,
                                     sum_of_income |-> sum_of_income,
                                     date_of_income |-> date_of_income]),
        !.sqlite_sequence.users_incomes = id]

\* The amount prompt of record_new_spending and the INSERT after it.
SpendingAmountLoop(db, date_of_spending, type_of_spending, amounts) ==
    LET k == FirstPositive(amounts, 1) IN
    IF k = 0 THEN Result(db, "NoValidAmount", amounts)
    ELSE Result(InsertExpense(db, date_of_spending, type_of_spending, amounts[k]),
                "Recorded", SubSeq(amounts, 1, k - 1))

\* record_new_spending going on to the amount prompt after add_expense_category
\* without looking for the category again.
record_new_spending_unchecked(db, dates, type_input, add_new, amounts) ==
    LET d == FirstValidDate(dates, 1)
        type_of_spending == lower(strip(type_input))
    IN
    IF d = 0 THEN Result(db, "NoValidDate", <<>>)
    ELSE IF ~existing_category(db, type_of_spending, EXPENSE)
    THEN IF Confirmed(add_new)
         THEN SpendingAmountLoop(add_expense_category(db, type_of_spending).db,
                                 dates[d], type_of_spending, amounts)
         ELSE Result(db, "NotRecorded", <<>>)
    ELSE SpendingAmountLoop(db, dates[d], type_of_spending, amounts)

record_new_spending(db, dates, type_input, add_new, amounts) ==
    LET d == FirstValidDate(dates, 1)
        type_of_spending == lower(strip(type_input))
    IN
    IF d = 0 THEN Result(db, "NoValidDate", <<>>)
    ELSE IF ~existing_category(db, type_of_spending, EXPENSE)
    THEN IF Confirmed(add_new)
         THEN LET added == add_expense_category(db, type_of_spending).db IN
              IF ~existing_category(added, type_of_spending, EXPENSE)
              THEN Result(added, "CategoryNotAdded", <<>>)
              ELSE SpendingAmountLoop(added, dates[d], type_of_spending, amounts)
         ELSE Result(db, "NotRecorded", <<>>)
    ELSE SpendingAmountLoop(db, dates[d], type_of_spending, amounts)

IncomeAmountLoop(db, date_of_income, source_of_income, amounts) ==
    LET k == FirstPositive(amounts, 1) IN
    IF k = 0 THEN Result(db, "NoValidAmount", amounts)
    ELSE Result(InsertIncome(db, source_of_income, amounts[k], date_of_income),
                "Recorded", SubSeq(amounts, 1, k - 1))

\* typed and description answer the prompts of add_income_category.
record_an_income(db, dates, source_input, add_new, typed, description, amounts) ==
    LET d == FirstValidDate(dates, 1)
        source_of_income == lower(strip(source_input))
    IN
    IF d = 0 THEN Result(db, "NoValidDate", <<>>)
    ELSE IF ~existing_category(db, source_of_income, INCOME)
    THEN IF Confirmed(add_new)
         THEN IncomeAmountLoop(
                  add_income_category(db, source_of_income, typed, description).db,
                  dates[d], source_of_income, amounts)
         ELSE Result(db, "NotRecorded", <<>>)
    ELSE IncomeAmountLoop(db, dates[d], source_of_income, amounts)

\* str.isdigit(): a non-empty text of digits.
isdigit(text) == text # <<>> /\ AllDigits(text)

\* The UPDATE without its WHERE clause.
UpdateEveryExpenseAmount(db, id, amount) ==
    [db EXCEPT !.users_expenses =
        [i \in DOMAIN @ |-> [@[i] EXCEPT !.amount_spent = amount]]]

\* UPDATE users_expenses SET amount_spent = ? WHERE id = ?
UpdateExpenseAmount(db, id, amount) ==
    [db EXCEPT !.users_expenses =
        [i \in DOMAIN @ |-> IF @[i].id = id THEN [@[i] EXCEPT !.amount_spent = amount]
                                           ELSE @[i]]]

UpdateIncomeAmount(db, id, amount) ==
    [db EXCEPT !.users_incomes =
        [i \in DOMAIN @ |-> IF @[i].id = id THEN [@[i] EXCEPT !.sum_of_income = amount]
                                           ELSE @[i]]]

\* The id text is compared with the INTEGER column by its numeric value; the
\* new amount is whatever number is typed.
update_my_spending(db, id_input, new_spending_amount) ==
    LET expense_ID_No == strip(id_input) IN
    IF ~isdigit(expense_ID_No) THEN Result(db, "InvalidId", <<>>)
    ELSE IF \E i \in DOMAIN db.users_expenses :
                db.users_expenses[i].id = Num(expense_ID_No)
    THEN Result(UpdateExpenseAmount(db, Num(expense_ID_No), new_spending_amount),
                "Updated", <<new_spending_amount>>)
    ELSE Result(db, "NotFound", <<>>)

update_my_income(db, id_input, amounts) ==
    LET income_ID_str == strip(id_input)
        k == FirstPositive(amounts, 1)
    IN
    IF ~isdigit(income_ID_str) \/ Num(income_ID_str) <= 0
    THEN Result(db, "InvalidId", <<>>)
    ELSE IF \E i \in DOMAIN db.users_incomes :
                db.users_incomes[i].id = Num(income_ID_str)
    THEN IF k = 0 THEN Result(db, "NoValidAmount", amounts)
         ELSE Result(UpdateIncomeAmount(db, Num(income_ID_str), amounts[k]),
                     "Updated", SubSeq(amounts, 1, k - 1))
    ELSE Result(db, "NotFound", <<>>)

\* DeleteExpenses stopping after the first matching row.
DeleteFirstExpense(db, category) ==
    LET found == {i \in DOMAIN db.users_expenses :
                     SqlLowerTrim(db.users_expenses[i].type_of_spending) = category}
        first == CHOOSE i \in found : \A j \in found : i <= j
    IN
    IF found = {} THEN db
    ELSE [db EXCEPT !.users_expenses =
             SubSeq(@, 1, first - 1) \o SubSeq(@, first + 1, Len(@))]

\* DELETE FROM users_expenses WHERE LOWER(TRIM(type_of_spending)) = ?
DeleteExpenses(db, category) ==
    [db EXCEPT !.users_expenses =
        SelectSeq(@, LAMBDA r : SqlLowerTrim(r.type_of_spending) # category)]

\* The DELETE of delete_income_type taking the category row with the incomes.
DeleteIncomesAndCategory(db, category) ==
    [db EXCEPT !.users_incomes =
                   SelectSeq(@, LAMBDA r : SqlLowerTrim(r.source_of_income) # category),
               !.income_categories =
                   {r \in @ : SqlLowerTrim(r.name_of_category) # category}]

\* DELETE FROM users_incomes WHERE LOWER(TRIM(source_of_income)) = ?
DeleteIncomes(db, category) ==
    [db EXCEPT !.users_incomes =
        SelectSeq(@, LAMBDA r : SqlLowerTrim(r.source_of_income) # category)]

delete_spending_type(db, category_in, confirm) ==
    LET category_to_delete == lower(strip(category_in))
        expense_found == {i \in DOMAIN db.users_expenses :
            SqlLowerTrim(db.users_expenses[i].type_of_spending) = category_to_delete}
    IN
    IF category_to_delete = <<>> THEN Result(db, "EmptyType", <<>>)
    ELSE IF expense_found # {}
    THEN IF Confirmed(confirm)
         THEN Result(DeleteExpenses(db, category_to_delete), "Deleted", <<>>)
         ELSE Result(db, "Cancelled", <<>>)
    ELSE Result(db, "NothingToDelete", <<>>)

\* delete_income_type deleting without asking.
delete_income_type_unconfirmed(db, category_in, confirm) ==
    LET category_to_delete == lower(strip(category_in))
        user_income == {i \in DOMAIN db.users_incomes :
            SqlLowerTrim(db.users_incomes[i].source_of_income) = category_to_delete}
    IN
    IF user_income # {}
    THEN Result(DeleteIncomes(db, category_to_delete), "Deleted", <<>>)
    ELSE Result(db, "NothingToDelete", <<>>)

delete_income_type(db, category_in, confirm) ==
    LET category_to_delete == lower(strip(category_in))
        user_income == {i \in DOMAIN db.users_incomes :
            SqlLowerTrim(db.users_incomes[i].source_of_income) = category_to_delete}
    IN
    IF user_income # {}
    THEN IF Confirmed(confirm)
         THEN Result(DeleteIncomes(db, category_to_delete), "Deleted", <<>>)
         ELSE Result(db, "Cancelled", <<>>)
    ELSE Result(db, "NothingToDelete", <<>>)

(***************************************************************************)
(* Views of the stored rows.  Nothing is written; the rows shown are info. *)
(***************************************************************************)
\* A view that reports no matching row as an option it does not have.
ShownOrRefused(db, rows) ==
    IF rows # <<>> THEN Result(db, "Found", rows) ELSE Result(db, "InvalidOption", <<>>)

Shown(db, rows) ==
    IF rows # <<>> THEN Result(db, "Found", rows) ELSE Result(db, "NoneFound", <<>>)

\* choice is the text typed at the filter prompt; only the prompt of the
\* chosen filter is reached.
check_expenses(db, choice_in, type_in, date_in) ==
    LET choice == strip(choice_in)
        type_of_spending == lower(strip(type_in))
    IN
    IF choice = <<"1">> THEN Shown(db, db.users_expenses)
    ELSE IF choice = <<"2">> THEN
        IF type_of_spending = <<>> THEN Result(db, "EmptyType", <<>>)
        ELSE Shown(db, SelectSeq(db.users_expenses,
                       LAMBDA r : SqlLowerTrim(r.type_of_spending) = type_of_spending))
    ELSE IF choice = <<"3">> THEN
        IF ~validate_date(date_in) THEN Result(db, "InvalidDate", <<>>)
        ELSE Shown(db, SelectSeq(db.users_expenses,
                       LAMBDA r : r.date_of_spending = date_in))
    ELSE Result(db, "InvalidOption", <<>>)

\* SELECT * FROM users_incomes WHERE LOWER(source_of_income) = ?
check_income(db, choice_in, source_in) ==
    LET choice == strip(choice_in)
        income_source == lower(strip(source_in))
    IN
    IF choice = <<"1">> THEN Shown(db, db.users_incomes)
    ELSE IF choice = <<"2">> THEN
        Shown(db, SelectSeq(db.users_incomes,
                  LAMBDA r : SqlLower(r.source_of_income) = income_source))
    ELSE Result(db, "InvalidOption", <<>>)

(***************************************************************************)
(* Reports.  Nothing is written; what is printed is info.                  *)
(***************************************************************************)
RECURSIVE SumSeq(_)
SumSeq(numbers) ==
    IF numbers = <<>> THEN 0 ELSE Head(numbers) + SumSeq(Tail(numbers))

ExpenseAmounts(rows) == [i \in DOMAIN rows |-> rows[i].amount_spent]
IncomeAmounts(rows) == [i \in DOMAIN rows |-> rows[i].sum_of_income]

\* SELECT SUM(sum_of_income) FROM users_incomes, and the same of expenses;
\* "or 0" for the NULL of an empty table.
magical_budget_calculator(db) ==
    LET total_income == SumSeq(IncomeAmounts(db.users_incomes))
        total_expenses == SumSeq(ExpenseAmounts(db.users_expenses))
    IN Result(db, "RemainingBudget",
              <<total_income, total_expenses, total_income - total_expenses>>)

\* strftime('%Y-%m', text) of SQLite: the text must have the form YYYY-MM-DD
\* with two digits of month and two of day, or the result is NULL, which is
\* <<>> here: a sequence of fields with no field.
SqlStrftimeYm(date_text) ==
    IF Len(date_text[1]) = 4 /\ Len(date_text[2]) = 2 /\ Len(date_text[3]) = 2
    THEN <<date_text[1], date_text[2]>>
    ELSE <<>>

\* strftime('%Y', text) of SQLite.
SqlStrftimeY(date_text) ==
    IF Len(date_text[1]) = 4 /\ Len(date_text[2]) = 2 /\ Len(date_text[3]) = 2
    THEN <<date_text[1]>>
    ELSE <<>>

MONTHLY == <<"m", "o", "n", "t", "h", "l", "y">>
ANNUALLY == <<"a", "n", "n", "u", "a", "l", "l", "y">>

\* now is datetime.now(), as the text of its date.  An answer that is neither
\* 'monthly' nor 'annually' leaves the handler at its prompt.
income_expenses_summary(db, timeframe_in, now) ==
    LET timeframe == lower(strip(timeframe_in))
        formatted_date == IF timeframe = MONTHLY THEN <<now[1], now[2]>> ELSE <<now[1]>>
        Period(date_text) == IF timeframe = MONTHLY THEN SqlStrftimeYm(date_text)
                                                    ELSE SqlStrftimeY(date_text)
        total_amount_of_expenses ==
            SumSeq(ExpenseAmounts(SelectSeq(db.users_expenses,
                LAMBDA r : Period(r.date_of_spending) = formatted_date)))
        total_amount_of_income ==
            SumSeq(IncomeAmounts(SelectSeq(db.users_incomes,
                LAMBDA r : Period(r.date_of_income) = formatted_date)))
    IN
    IF timeframe \notin {MONTHLY, ANNUALLY} THEN Result(db, "NoTimeframe", <<>>)
    ELSE Result(db, "Summary",
                <<total_amount_of_income, total_amount_of_expenses,
                  total_amount_of_income - total_amount_of_expenses>>)

\* The breakdown without SUM: each group shows the amount of its first row.
type_of_spending_and_income_unsummed(db) ==
    LET types == {db.users_expenses[i].type_of_spending : i \in DOMAIN db.users_expenses}
        sources == {db.users_incomes[i].source_of_income : i \in DOMAIN db.users_incomes}
        expenses == {<<t, SelectSeq(db.users_expenses,
                          LAMBDA r : r.type_of_spending = t)[1].amount_spent>> : t \in types}
        incomes == {<<t, SelectSeq(db.users_incomes,
                         LAMBDA r : r.source_of_income = t)[1].sum_of_income>> : t \in sources}
    IN Result(db, "Breakdown", <<expenses, incomes>>)

\* SELECT type_of_spending, SUM(amount_spent) ... GROUP BY type_of_spending,
\* and the same of incomes by source: the two mappings, as sets of pairs.
type_of_spending_and_income(db) ==
    LET types == {db.users_expenses[i].type_of_spending : i \in DOMAIN db.users_expenses}
        sources == {db.users_incomes[i].source_of_income : i \in DOMAIN db.users_incomes}
        expenses == {<<t, SumSeq(ExpenseAmounts(SelectSeq(db.users_expenses,
                          LAMBDA r : r.type_of_spending = t)))>> : t \in types}
        incomes == {<<t, SumSeq(IncomeAmounts(SelectSeq(db.users_incomes,
                         LAMBDA r : r.source_of_income = t)))>> : t \in sources}
    IN Result(db, "Breakdown", <<expenses, incomes>>)

\* The order of the group keys: NULL first, then the texts in ascending order
\* (the texts are YYYY-MM, so that text order is the order of the numbers).
KeyBefore(a, b) ==
    IF a = <<>> THEN b # <<>>
    ELSE IF b = <<>> THEN FALSE
    ELSE \/ Num(a[1]) < Num(b[1])
         \/ Num(a[1]) = Num(b[1]) /\ Num(a[2]) < Num(b[2])

RECURSIVE SortKeys(_)
SortKeys(keys) ==
    IF keys = {} THEN <<>>
    ELSE LET first == CHOOSE k \in keys : \A other \in keys \ {k} : KeyBefore(k, other)
         IN <<first>> \o SortKeys(keys \ {first})

\* SELECT strftime('%Y-%m', date_of_spending), SUM(amount_spent) ... GROUP BY
\* strftime('%Y-%m', date_of_spending): the groups come out in key order.
trends_for_tracking_spending(db) ==
    LET months == SortKeys({SqlStrftimeYm(db.users_expenses[i].date_of_spending) :
                               i \in DOMAIN db.users_expenses})
    IN Result(db, "Trends",
              [k \in DOMAIN months |->
                  <<months[k], SumSeq(ExpenseAmounts(SelectSeq(db.users_expenses,
                        LAMBDA r : SqlStrftimeYm(r.date_of_spending) = months[k])))>>])

(***************************************************************************)
(* Savings goals.                                                          *)
(***************************************************************************)
\* INSERT INTO saving_goals (..., saved_up_so_far = 0, ...)
InsertGoal(db, name_of_goal, desired_amount, commencing_date, finish_date) ==
    LET id == db.sqlite_sequence.saving_goals + 1 IN
    [db EXCEPT
        !.saving_goals = Append(@, [goal_ID_No |-> id,
                                    name_of_goal |-> name_of_goal,
                                    commencing_date |-> commencing_date,
                                    finish_date |-> finish_date,
                                    monthly_target_amount |-> desired_amount,
                                    saved_up_so_far |-> 0]),
        !.sqlite_sequence.saving_goals = id]

personalised_financial_goal(db, name_in, desired_amount, commencing_date, finish_date) ==
    LET name_of_goal == lower(strip(name_in)) IN
    IF DateLeq(strptime(finish_date), strptime(commencing_date))
    THEN Result(db, "InvalidDateRange", <<>>)
    ELSE Result(InsertGoal(db, name_of_goal, desired_amount, commencing_date, finish_date),
                "GoalCreated", <<desired_amount, 0>>)

\* goals_menu, choice 1: the target must be > 0, both dates must parse and the
\* end date must be after the start date before the goal is stored.
goals_menu_create(db, name_in, target_amount, start_date, end_date) ==
    IF target_amount <= 0 THEN Result(db, "InvalidAmount", <<target_amount>>)
    ELSE IF ~validate_date(end_date) \/ ~validate_date(start_date)
    THEN Result(db, "InvalidDate", <<>>)
    ELSE IF DateLeq(strptime(end_date), strptime(start_date))
    THEN Result(db, "InvalidDateRange", <<>>)
    ELSE personalised_financial_goal(db, strip(name_in), target_amount,
                                     start_date, end_date)

\* SELECT monthly_target_amount, saved_up_so_far FROM saving_goals
\* WHERE LOWER(name_of_goal) = ?  -- the positions of the matching rows
SelectGoals(db, name_of_goal) ==
    {i \in DOMAIN db.saving_goals : SqlLower(db.saving_goals[i].name_of_goal) = name_of_goal}

\* The last matching row taken in place of the first.
FetchLast(positions) == CHOOSE i \in positions : \A j \in positions : i >= j

\* cursor.fetchone(): the first matching row, in id order.
FetchOne(positions) == CHOOSE i \in positions : \A j \in positions : i <= j

\* The UPDATE reaching the row that was read and no other row of the name.
UpdateSavingsOfGoalRead(db, name_of_goal, updated_savings) ==
    [db EXCEPT !.saving_goals =
        [i \in DOMAIN @ |->
            IF i = FetchOne(SelectGoals(db, name_of_goal))
            THEN [@[i] EXCEPT !.saved_up_so_far = updated_savings]
            ELSE @[i]]]

\* UPDATE saving_goals SET saved_up_so_far = ? WHERE LOWER(name_of_goal) = ?
UpdateSavings(db, name_of_goal, updated_savings) ==
    [db EXCEPT !.saving_goals =
        [i \in DOMAIN @ |->
            IF SqlLower(@[i].name_of_goal) = name_of_goal
            THEN [@[i] EXCEPT !.saved_up_so_far = updated_savings]
            ELSE @[i]]]

\* The completion test with >= in place of >: a goal that has just reached
\* its target is still offered a contribution.
ContributableAtTarget(remaining_amount) == remaining_amount >= 0

\* The completion test left out: a contribution is always offered.
AlwaysContributable(remaining_amount) == TRUE

\* if remaining_amount > 0: the goal is not completed yet.
Contributable(remaining_amount) == remaining_amount > 0

\* The savings overwritten with the contribution instead of raised by it.
OverwrittenSavings(saved_so_far, new_savings) == new_savings

\* updated_savings = saved_so_far + new_savings
UpdatedSavings(saved_so_far, new_savings) == saved_so_far + new_savings

\* What is printed is info: <<target, saved, remaining>>, and the remaining
\* balance after an accepted contribution.
browse_goal_progress(db, name_in, add_more, new_savings) ==
    LET name_of_goal == lower(strip(name_in))
        found == SelectGoals(db, name_of_goal)
        result == db.saving_goals[FetchOne(found)]
        desired_amount == result.monthly_target_amount
        saved_so_far == result.saved_up_so_far
        remaining_amount == desired_amount - saved_so_far
        updated_savings == UpdatedSavings(saved_so_far, new_savings)
        shown == <<desired_amount, saved_so_far, remaining_amount>>
    IN
    IF found = {} THEN Result(db, "NotFound", <<>>)
    ELSE IF ~Contributable(remaining_amount) THEN Result(db, "Completed", shown)
    ELSE IF ~Confirmed(add_more) THEN Result(db, "Shown", shown)
    ELSE IF new_savings <= 0 THEN Result(db, "InvalidAmount", shown)
    ELSE Result(UpdateSavings(db, name_of_goal, updated_savings), "Added",
                Append(shown, desired_amount - updated_savings))

(***************************************************************************)
(* The menus' own steps around the handlers.                               *)
(***************************************************************************)
\* expenses_menu, choice 2
expenses_menu_add(db, name_in) ==
    LET category_name == strip(name_in) IN
    IF category_name # <<>> THEN add_expense_category(db, category_name)
    ELSE Result(db, "EmptyName", <<>>)

\* budget_menu, choice 2
budget_menu_view(db, name_in, type_in) ==
    display_category_budget(db, lower(strip(name_in)), lower(strip(type_in)))

\* goals_menu, choice 2
goals_menu_browse(db, name_in, add_more, new_savings) ==
    browse_goal_progress(db, strip(name_in), add_more, new_savings)

(***************************************************************************)
(* What is typed at the prompts.                                           *)
(***************************************************************************)
NameInputs == {<<" ", "F", " ">>, <<"g">>, <<>>}
BudgetNameInputs == {<<" ", "F", " ">>, <<>>}
GoalNameInputs == {<<" ", "F", " ">>, <<"g">>}
TypedInputs == {<<"G">>, <<>>}
TypeInputs == {INCOME, <<"E", "x", "p", "e", "n", "s", "e", " ">>, <<"f">>}
Answers == {<<" ", "Y">>, <<"n">>}
Descriptions == {<<>>}
Amounts == {-1, 0, 1, 2}
AmountAttempts == {<<1>>, <<0, 2>>, <<-1>>}
UpdateAmounts == {0, 2}
TargetInputs == {0, 2, 3}
IdInputs == {<<"1">>, <<"2">>, <<" ", "0", "3">>, <<"0">>, <<"f">>}

Y2024 == <<"2", "0", "2", "4">>
\* 2024-03-01, 2024-3-5 (accepted by strptime), 2024-04-01, 2024-02-30 (no such day)
Mar01 == <<Y2024, <<"0", "3">>, <<"0", "1">>>>
Mar5 == <<Y2024, <<"3">>, <<"5">>>>
Apr01 == <<Y2024, <<"0", "4">>, <<"0", "1">>>>
Feb30 == <<Y2024, <<"0", "2">>, <<"3", "0">>>>
GoalDates == {<<Mar01, Mar5>>, <<Mar5, Mar01>>, <<Mar01, Mar01>>, <<Feb30, Mar01>>}
DateAttempts == {<<Feb30, Mar5>>, <<Feb30>>}

ViewChoices == {<<"1">>, <<" ", "2">>, <<"3">>, <<"4">>}
ViewDates == {Mar01, Mar5, Feb30}

Mar10 == <<Y2024, <<"0", "3">>, <<"1", "0">>>>
Nows == {Mar10, Apr01}
Timeframes == {<<"M", "o", "n", "t", "h", "l", "y", " ">>, ANNUALLY, <<"y">>}

GoalNames == {lower(strip(n)) : n \in GoalNameInputs}

(***************************************************************************)
(* The databases a session starts from: a fresh one, and one an earlier    *)
(* session left, computed with the handlers themselves.                    *)
(***************************************************************************)
SeedDB ==
    LET s1 == add_expense_category(EmptyDB, <<"f">>).db
        s2 == record_new_spending(s1, <<Mar01>>, <<"f">>, <<"n">>, <<1>>).db
        s3 == add_income_category(s2, NULL, <<"g">>, <<>>).db
        s4 == record_an_income(s3, <<Mar01>>, <<"g">>, <<"n">>, <<>>, <<>>, <<2>>).db
        s5 == set_budget_for_category(s4, <<"f">>, 1, EXPENSE, <<"n">>).db
    IN goals_menu_create(s5, <<"g">>, 2, Mar01, Mar5).db

Seeds == {EmptyDB, SeedDB}

Menus == {"expenses", "income", "budget", "goals", "reports"}

NoCallers == [c \in {1, 2} |-> [pc |-> "idle", name |-> <<>>, saved_so_far |-> 0,
                                new_savings |-> 0]]

Start(db) ==
    /\ users_expenses = db.users_expenses
    /\ users_incomes = db.users_incomes
    /\ budget_calculator = db.budget_calculator
    /\ saving_goals = db.saving_goals
    /\ income_categories = db.income_categories
    /\ expense_categories = db.expense_categories
    /\ sqlite_sequence = db.sqlite_sequence
    /\ last = [op |-> "start", out |-> "", info |-> <<>>]
    /\ contributed = [n \in GoalNames |-> 0]

Init ==
    /\ menu \in Menus
    /\ \E db \in Seeds : Start(db)
    /\ callers = NoCallers

\* The handler's result becomes the state.
Apply(r, op) ==
    /\ Len(r.db.users_expenses) <= MaxRows
    /\ Len(r.db.users_incomes) <= MaxRows
    /\ Len(r.db.saving_goals) <= MaxGoals
    /\ r.db.sqlite_sequence.users_expenses <= MaxRows
    /\ r.db.sqlite_sequence.users_incomes <= MaxRows
    /\ users_expenses' = r.db.users_expenses
    /\ users_incomes' = r.db.users_incomes
    /\ budget_calculator' = r.db.budget_calculator
    /\ saving_goals' = r.db.saving_goals
    /\ income_categories' = r.db.income_categories
    /\ expense_categories' = r.db.expense_categories
    /\ sqlite_sequence' = r.db.sqlite_sequence
    /\ last' = [op |-> op, out |-> r.out, info |-> r.info]
    /\ UNCHANGED <<menu, callers>>

\* A prompt the handler does not reach takes no answer.
Asked(reached, answers) == IF reached THEN answers ELSE {<<>>}

AddExpenseCategory ==
    /\ menu = "expenses"
    /\ \E n \in NameInputs :
          \E r \in {expenses_menu_add(DB, n)} : Apply(r, "add_expense_category")
    /\ UNCHANGED contributed

RecordNewSpending ==
    /\ menu = "expenses"
    /\ \E d \in DateAttempts, n \in NameInputs :
       \E y \in Asked(FirstValidDate(d, 1) # 0 /\ ~existing_category(DB, n, EXPENSE),
                      Answers) :
       \E a \in Asked(FirstValidDate(d, 1) # 0
                        /\ (existing_category(DB, n, EXPENSE) \/ Confirmed(y)),
                      AmountAttempts) :
       \E r \in {record_new_spending(DB, d, n, y, a)} : Apply(r, "record_new_spending")
    /\ UNCHANGED contributed

UpdateMySpending ==
    /\ menu = "expenses"
    /\ \E i \in IdInputs, a \in UpdateAmounts :
          \E r \in {update_my_spending(DB, i, a)} : Apply(r, "update_my_spending")
    /\ UNCHANGED contributed

DeleteSpendingType ==
    /\ menu = "expenses"
    /\ \E n \in NameInputs :
       \E y \in Asked(delete_spending_type(DB, n, YES).out = "Deleted", Answers) :
       \E r \in {delete_spending_type(DB, n, y)} : Apply(r, "delete_spending_type")
    /\ UNCHANGED contributed

CheckExpenses ==
    /\ menu = "expenses"
    /\ \E c \in ViewChoices :
       \E n \in Asked(strip(c) = <<"2">>, NameInputs) :
       \E d \in Asked(strip(c) = <<"3">>, ViewDates) :
          Apply(check_expenses(DB, c, n, d), "check_expenses")
    /\ UNCHANGED contributed

CheckIncome ==
    /\ menu = "income"
    /\ \E c \in ViewChoices :
       \E n \in Asked(strip(c) = <<"2">>, NameInputs) :
          Apply(check_income(DB, c, n), "check_income")
    /\ UNCHANGED contributed

AddIncomeCategory ==
    /\ menu = "income"
    /\ \E n \in NameInputs, d \in Descriptions :
          \E r \in {add_income_category(DB, NULL, n, d)} : Apply(r, "add_income_category")
    /\ UNCHANGED contributed

RecordAnIncome ==
    /\ menu = "income"
    /\ \E d \in DateAttempts, n \in NameInputs, ds \in Descriptions :
       \E y \in Asked(FirstValidDate(d, 1) # 0 /\ ~existing_category(DB, n, INCOME),
                      Answers) :
       \E t \in Asked(Confirmed(y) /\ strip(n) = <<>>, TypedInputs) :
       \E a \in Asked(FirstValidDate(d, 1) # 0
                        /\ (existing_category(DB, n, INCOME) \/ Confirmed(y)),
                      AmountAttempts) :
       \E r \in {record_an_income(DB, d, n, y, t, ds, a)} : Apply(r, "record_an_income")
    /\ UNCHANGED contributed

UpdateMyIncome ==
    /\ menu = "income"
    /\ \E i \in IdInputs, a \in AmountAttempts :
          \E r \in {update_my_income(DB, i, a)} : Apply(r, "update_my_income")
    /\ UNCHANGED contributed

DeleteIncomeType ==
    /\ menu = "income"
    /\ \E n \in NameInputs :
       \E y \in Asked(delete_income_type(DB, n, YES).out = "Deleted", Answers) :
       \E r \in {delete_income_type(DB, n, y)} : Apply(r, "delete_income_type")
    /\ UNCHANGED contributed

SetBudget ==
    /\ menu = "budget"
    /\ \E n \in BudgetNameInputs, v \in Amounts, t \in TypeInputs :
       \E y \in Asked(v > 0 /\ lower(strip(t)) \in {INCOME, EXPENSE}
                        /\ ~existing_category(DB, n, lower(strip(t))), Answers) :
       \E r \in {budget_menu_set(DB, n, v, t, y)} : Apply(r, "set_budget_for_category")
    /\ UNCHANGED contributed

ViewBudget ==
    /\ menu = "budget"
    /\ \E n \in BudgetNameInputs, t \in TypeInputs :
          \E r \in {budget_menu_view(DB, n, t)} : Apply(r, "display_category_budget")
    /\ UNCHANGED contributed

MagicalBudgetCalculator ==
    /\ menu = "budget"
    /\ Apply(magical_budget_calculator(DB), "magical_budget_calculator")
    /\ UNCHANGED contributed

IncomeExpensesSummary ==
    /\ menu = "reports"
    /\ \E t \in Timeframes, now \in Nows :
          Apply(income_expenses_summary(DB, t, now), "income_expenses_summary")
    /\ UNCHANGED contributed

TypeOfSpendingAndIncome ==
    /\ menu = "reports"
    /\ Apply(type_of_spending_and_income(DB), "type_of_spending_and_income")
    /\ UNCHANGED contributed

TrendsForTrackingSpending ==
    /\ menu = "reports"
    /\ Apply(trends_for_tracking_spending(DB), "trends_for_tracking_spending")
    /\ UNCHANGED contributed

CreateGoal ==
    /\ menu = "goals"
    /\ \E n \in GoalNameInputs, t \in TargetInputs, d \in GoalDates :
          \E r \in {goals_menu_create(DB, n, t, d[1], d[2])} :
             Apply(r, "personalised_financial_goal")
    /\ UNCHANGED contributed

BrowseGoalProgress ==
    /\ menu = "goals"
    /\ \E n \in GoalNameInputs \cup {<<>>}, y \in Answers :
       \E a \in (IF Confirmed(y) THEN Amounts ELSE {0}) :
       \E r \in {goals_menu_browse(DB, n, y, a)} :
          /\ Apply(r, "browse_goal_progress")
          /\ contributed' = IF r.out = "Added"
                            THEN [contributed EXCEPT ![lower(strip(n))] = @ + a]
                            ELSE contributed

ExpensesMenu ==
    \/ AddExpenseCategory \/ RecordNewSpending \/ UpdateMySpending \/ DeleteSpendingType
    \/ CheckExpenses
IncomeMenu ==
    \/ AddIncomeCategory \/ RecordAnIncome \/ UpdateMyIncome \/ DeleteIncomeType
    \/ CheckIncome
BudgetMenu == SetBudget \/ ViewBudget \/ MagicalBudgetCalculator
GoalsMenu == CreateGoal \/ BrowseGoalProgress
ReportsMenu ==
    IncomeExpensesSummary \/ TypeOfSpendingAndIncome \/ TrendsForTrackingSpending

\* Back in user_main_menu after expenses_menu or income_menu, the user opens
\* reports_menu.
OpenReportsMenu ==
    /\ menu \in {"expenses", "income"}
    /\ menu' = "reports"
    /\ last' = [op |-> "user_main_menu", out |-> "", info |-> <<>>]
    /\ UNCHANGED <<tables, sqlite_sequence, contributed, callers>>

Next ==
    ExpensesMenu \/ IncomeMenu \/ BudgetMenu \/ GoalsMenu \/ ReportsMenu \/ OpenReportsMenu

Spec == Init /\ [][Next]_vars

(***************************************************************************)
(* Two sessions of the program on one database file, both inside           *)
(* browse_goal_progress: the SELECT and the UPDATE of a contribution are   *)
(* two statements, each atomic, with the prompts between them.             *)
(***************************************************************************)
ConcSeeds ==
    {SeedDB,
     goals_menu_create(goals_menu_create(EmptyDB, <<"g">>, 3, Mar01, Mar5).db,
                       <<" ", "F", " ">>, 2, Mar01, Mar5).db}

InitConc ==
    /\ menu = "goals"
    /\ \E db \in ConcSeeds : Start(db)
    /\ callers = NoCallers

\* The SELECT and fetchone() of caller c, and the answers it will type.
ConcSelect(c) ==
    /\ callers[c].pc = "idle"
    /\ \E n \in GoalNameInputs, a \in Amounts :
          LET name_of_goal == lower(strip(strip(n)))
              found == SelectGoals(DB, name_of_goal)
              result == saving_goals[FetchOne(found)]
              remaining_amount == result.monthly_target_amount - result.saved_up_so_far
          IN
          callers' = [callers EXCEPT ![c] =
              IF found # {} /\ Contributable(remaining_amount) /\ a > 0
              THEN [pc |-> "selected", name |-> name_of_goal,
                    saved_so_far |-> result.saved_up_so_far, new_savings |-> a]
              ELSE [pc |-> "done", name |-> name_of_goal, saved_so_far |-> 0,
                    new_savings |-> 0]]
    /\ UNCHANGED <<tables, sqlite_sequence, last, contributed, menu>>

\* The UPDATE of caller c, with the savings it read at its SELECT.
ConcUpdate(c) ==
    /\ callers[c].pc = "selected"
    /\ saving_goals' =
          UpdateSavings(DB, callers[c].name,
                        UpdatedSavings(callers[c].saved_so_far,
                                       callers[c].new_savings)).saving_goals
    /\ contributed' = [contributed EXCEPT ![callers[c].name] = @ + callers[c].new_savings]
    /\ callers' = [callers EXCEPT ![c].pc = "done"]
    /\ UNCHANGED <<users_expenses, users_incomes, budget_calculator, income_categories,
                   expense_categories, sqlite_sequence, last, menu>>

ConcNext == \E c \in {1, 2} : ConcSelect(c) \/ ConcUpdate(c)

SpecConc == InitConc /\ [][ConcNext]_vars

(***************************************************************************)
(* Properties.                                                             *)
(***************************************************************************)
\* The four tables an amount can be stored in.
AmountTables(db) ==
    <<db.users_expenses, db.users_incomes, db.budget_calculator, db.saving_goals>>

\* C1: every stored amount is strictly positive: the amount of every expense
\* row, the amount of every income row, the value of every budget row and the
\* target of every goal row, whatever operations have run.
C1_StoredAmountsPositive ==
    /\ \A i \in DOMAIN users_expenses : users_expenses[i].amount_spent > 0
    /\ \A i \in DOMAIN users_incomes : users_incomes[i].sum_of_income > 0
    /\ \A r \in budget_calculator : r.budget_value > 0
    /\ \A i \in DOMAIN saving_goals : saving_goals[i].monthly_target_amount > 0


\* C2: an amount a <= 0 submitted to recordExpense, recordIncome, setBudget or
\* contributeToGoal is rejected and never stored: the expense, income, budget
\* and goal tables are the same after the rejection as before.  In a step of
\* recordExpense or recordIncome, last.info lists the amounts the prompt
\* refused: when no amount is accepted the four tables are unchanged, and when
\* one is, the only change is one new row whose amount is > 0.
C2_RecordStep ==
    /\ last'.op = "record_new_spending" =>
          IF last'.out = "Recorded"
          THEN /\ Len(users_expenses') = Len(users_expenses) + 1
               /\ SubSeq(users_expenses', 1, Len(users_expenses)) = users_expenses
               /\ users_expenses'[Len(users_expenses')].amount_spent > 0
               /\ \A i \in DOMAIN last'.info : last'.info[i] <= 0
               /\ <<users_incomes', budget_calculator', saving_goals'>>
                    = <<users_incomes, budget_calculator, saving_goals>>
          ELSE AmountTables(DB)' = AmountTables(DB)
    /\ last'.op = "record_an_income" =>
          IF last'.out = "Recorded"
          THEN /\ Len(users_incomes') = Len(users_incomes) + 1
               /\ SubSeq(users_incomes', 1, Len(users_incomes)) = users_incomes
               /\ users_incomes'[Len(users_incomes')].sum_of_income > 0
               /\ \A i \in DOMAIN last'.info : last'.info[i] <= 0
               /\ <<users_expenses', budget_calculator', saving_goals'>>
                    = <<users_expenses, budget_calculator, saving_goals>>
          ELSE AmountTables(DB)' = AmountTables(DB)

C2_Refused ==
    \A a \in {x \in Amounts : x <= 0} :
        /\ \A n \in NameInputs, t \in TypeInputs, y \in Answers :
              /\ budget_menu_set(DB, n, a, t, y) = Result(DB, "InvalidAmount", <<a>>)
              /\ set_budget_for_category(DB, n, a, t, y) = Result(DB, "InvalidAmount", <<a>>)
        /\ \A n \in GoalNameInputs :
              LET r == goals_menu_browse(DB, n, <<"y">>, a) IN
              /\ r.out \in {"NotFound", "Completed", "InvalidAmount"}
              /\ r.db = DB
        /\ \A d \in DateAttempts, n \in NameInputs :
              LET r == record_new_spending(DB, d, n, <<"y">>, <<a>>) IN
              /\ r.out \in {"NoValidDate", "NotRecorded", "CategoryNotAdded", "NoValidAmount"}
              /\ AmountTables(r.db) = AmountTables(DB)
        /\ \A d \in DateAttempts, n \in NameInputs :
              LET r == record_an_income(DB, d, n, <<"y">>, <<"G">>, <<>>, <<a>>) IN
              /\ r.out \in {"NoValidDate", "NotRecorded", "CategoryNotAdded", "NoValidAmount"}
              /\ AmountTables(r.db) = AmountTables(DB)

C2_NonPositiveRejected == []C2_Refused /\ [][C2_RecordStep]_vars

\* C2 witness: the prompt of recordExpense refused the amount 0 and the
\* expense was then recorded, after the one the session started with.
C2_RejectionHappened ==
    /\ last.op = "record_new_spending"
    /\ last.out = "Recorded"
    /\ last.info = <<0>>
    /\ Len(users_expenses) = 2

\* C3: a goal contribution is an atomic read-modify-write: when two callers
\* have both finished contributing, no update is lost and the goal's
\* saved_up_so_far is its value at the start (0) plus every accepted
\* contribution.
C3_NoLostUpdate ==
    (\A c \in DOMAIN callers : callers[c].pc = "done") =>
        \A i \in DOMAIN saving_goals :
            saving_goals[i].saved_up_so_far =
                contributed[SqlLower(saving_goals[i].name_of_goal)]

\* One accepted-or-refused contribution to goal n, answered with "y".
Contribute(db, n, a) == goals_menu_browse(db, n, <<"y">>, a).db

\* The goal a contribution to n reads.
GoalRead(db, n) == db.saving_goals[FetchOne(SelectGoals(db, lower(strip(n))))]

C4_CumulativeBelowTarget ==
    \A n \in GoalNameInputs, x \in {1, 2}, y \in {1, 2} :
        SelectGoals(DB, lower(strip(n))) # {} =>
            LET goal == GoalRead(DB, n)
                saved == goal.saved_up_so_far
                target == goal.monthly_target_amount
                twice == GoalRead(Contribute(Contribute(DB, n, x), n, y), n)
                once == GoalRead(Contribute(DB, n, x + y), n)
            IN
            saved < target =>
                /\ once.saved_up_so_far = saved + x + y
                /\ saved + x < target =>
                      /\ twice.saved_up_so_far = saved + x + y
                      /\ Contribute(Contribute(DB, n, x), n, y) = Contribute(DB, n, x + y)
                /\ saved + x >= target =>
                      /\ twice.saved_up_so_far = saved + x
                      /\ goals_menu_browse(Contribute(DB, n, x), n, <<"y">>, y).out
                            = "Completed"

C5_SavedStep ==
    /\ Len(saving_goals') >= Len(saving_goals)
    /\ \A i \in DOMAIN saving_goals :
          /\ saving_goals'[i].goal_ID_No = saving_goals[i].goal_ID_No
          /\ saving_goals'[i].saved_up_so_far >= saving_goals[i].saved_up_so_far
    /\ \A i \in DOMAIN saving_goals' \ DOMAIN saving_goals :
          saving_goals'[i].saved_up_so_far = 0

C5_SavedNonNegative ==
    \A i \in DOMAIN saving_goals : saving_goals[i].saved_up_so_far >= 0

C5_SavedMonotonic == []C5_SavedNonNegative /\ [][C5_SavedStep]_vars

\* C5 witness: a goal was created in this session next to an older one, and a
\* contribution has since raised its savings from 0.
C5_CreatedThenRaised ==
    /\ Len(saving_goals) = 2
    /\ last.op = "browse_goal_progress"
    /\ last.out = "Added"
    /\ saving_goals[2].saved_up_so_far > 0
    /\ saving_goals[1].saved_up_so_far > 0

\* C6: every stored goal has end date > start date; createGoal with
\* end <= start inserts nothing and reports the invalid range; no later
\* operation changes the dates of a goal.
DayOrder(date_text) ==
    LET d == strptime(date_text) IN (d[1] * 12 + d[2]) * 31 + d[3]

C6_StoredWindow ==
    \A i \in DOMAIN saving_goals :
        /\ validate_date(saving_goals[i].commencing_date)
        /\ validate_date(saving_goals[i].finish_date)
        /\ DayOrder(saving_goals[i].finish_date) > DayOrder(saving_goals[i].commencing_date)

C6_RangeRefused ==
    \A n \in GoalNameInputs, t \in {x \in TargetInputs : x > 0}, d \in GoalDates :
        (/\ validate_date(d[1])
         /\ validate_date(d[2])
         /\ DayOrder(d[2]) <= DayOrder(d[1])) =>
            /\ goals_menu_create(DB, n, t, d[1], d[2]) = Result(DB, "InvalidDateRange", <<>>)
            /\ personalised_financial_goal(DB, n, t, d[1], d[2])
                  = Result(DB, "InvalidDateRange", <<>>)

C6_DatesStep ==
    \A i \in DOMAIN saving_goals :
        /\ i \in DOMAIN saving_goals'
        /\ saving_goals'[i].commencing_date = saving_goals[i].commencing_date
        /\ saving_goals'[i].finish_date = saving_goals[i].finish_date

C6_EndAfterStart ==
    /\ []C6_StoredWindow
    /\ []C6_RangeRefused
    /\ [][C6_DatesStep]_vars

\* C6 witness: with a goal stored, a creation whose end date is not after its
\* start date was refused, and the stored goal still has its window.
C6_RefusedNextToStored ==
    /\ last.op = "personalised_financial_goal"
    /\ last.out = "InvalidDateRange"
    /\ Len(saving_goals) = 2

\* C7: for every goal name that exists, getGoalProgress reports target, saved
\* and remaining with remaining = target - saved, where target is the goal's
\* target and saved is the sum of the contributions accepted for that goal
\* since its creation, and it changes no table; for a name that does not
\* exist it reports not-found and changes no table.
C7_Progress ==
    \A n \in GoalNameInputs :
        LET r == goals_menu_browse(DB, n, <<"n">>, 0)
            name == lower(strip(n))
            rows == {i \in DOMAIN saving_goals : saving_goals[i].name_of_goal = name}
        IN
        IF rows = {}
        THEN r = Result(DB, "NotFound", <<>>)
        ELSE LET first == CHOOSE i \in rows : \A j \in rows : i <= j IN
             /\ r.out \in {"Shown", "Completed"}
             /\ r.db = DB
             /\ Len(r.info) = 3
             /\ r.info[1] = saving_goals[first].monthly_target_amount
             /\ r.info[2] = contributed[name]
             /\ r.info[3] = r.info[1] - r.info[2]

C7_ProgressReported == []C7_Progress

\* C7 witness: a goal with target 3 that has received one contribution of 1
\* was browsed without contributing, and 3, 1 and 2 were reported.
C7_ProgressShown ==
    /\ last.op = "browse_goal_progress"
    /\ last.out = "Shown"
    /\ last.info = <<3, 1, 2>>
    /\ \E n \in GoalNames : contributed[n] = 1

\* addCategory as the two menus call it.
AddCategory(db, n, t) ==
    IF t = EXPENSE THEN expenses_menu_add(db, n)
    ELSE add_income_category(db, NULL, n, <<>>)

\* The rows of namespace t that hold the name n.
Holding(db, n, t) ==
    {r \in CategoryTable(db, t) : r.name_of_category = lower(strip(n))}

AddTwice(n, t) ==
    LET r1 == AddCategory(DB, n, t)
        r2 == AddCategory(r1.db, n, t)
    IN
    /\ r1.out = "Added"
    /\ r2.out = "Duplicate"
    /\ r2.db = r1.db
    /\ Cardinality(Holding(r2.db, n, t)) = 1

AddBoth(n) ==
    LET r1 == AddCategory(DB, n, INCOME)
        r2 == AddCategory(r1.db, n, EXPENSE)
    IN
    /\ r1.out = "Added"
    /\ r2.out = "Added"
    /\ Cardinality(Holding(r2.db, n, INCOME)) = 1
    /\ Cardinality(Holding(r2.db, n, EXPENSE)) = 1

\* C8 as stated: for every category name n and type t, with n not yet in the
\* namespace, addCategory(n, t) twice succeeds the first time and reports a
\* duplicate the second time with no mutation, one row holding n; with n in
\* neither namespace, addCategory(n, income) and then addCategory(n, expense)
\* both succeed, each namespace then holding n.
C8_AddTwice ==
    \A n \in NameInputs :
        /\ \A t \in {INCOME, EXPENSE} : Holding(DB, n, t) = {} => AddTwice(n, t)
        /\ (Holding(DB, n, INCOME) = {} /\ Holding(DB, n, EXPENSE) = {}) => AddBoth(n)

\* C8, amended: the same for every category name that is not empty once
\* trimmed; a name that is empty once trimmed is refused both times and
\* nothing is stored.
C8_NonEmptyTwice ==
    \A n \in NameInputs :
        IF strip(n) # <<>>
        THEN /\ \A t \in {INCOME, EXPENSE} : Holding(DB, n, t) = {} => AddTwice(n, t)
             /\ (Holding(DB, n, INCOME) = {} /\ Holding(DB, n, EXPENSE) = {})
                   => AddBoth(n)
        ELSE \A t \in {INCOME, EXPENSE} : AddCategory(DB, n, t) = Result(DB, "EmptyName", <<>>)

C8_AddNonEmptyTwice == []C8_NonEmptyTwice

\* C8 witness: a category was added in this session and adding it again has
\* just been reported as a duplicate; the namespace holds it once.
C8_DuplicateReported ==
    /\ last.op = "add_expense_category"
    /\ last.out = "Duplicate"
    /\ expense_categories = {CategoryRow(<<"f">>, NULL), CategoryRow(<<"g">>, NULL)}

\* The budget rows stored under the normalized name of n.
BudgetsOf(db, n) ==
    {r \in db.budget_calculator : lower(strip(r.name_of_category)) = lower(strip(n))}

\* C9: setBudget replaces: the budget table never holds two rows with the
\* same normalized name; after a successful setBudget the one row of that
\* name carries the value and the type of that call and the rows of other
\* names are as before, and after two successful calls for a name, with any
\* values and types, the one row carries those of the second call.
C9_OneRowPerName ==
    \A r1, r2 \in budget_calculator :
        lower(strip(r1.name_of_category)) = lower(strip(r2.name_of_category)) => r1 = r2

C9_Replaced ==
    \A n \in BudgetNameInputs, v \in {1, 2}, t \in TypeInputs :
        LET s1 == budget_menu_set(DB, n, v, t, <<"y">>)
            row == BudgetRow(lower(strip(n)), v, lower(strip(t)))
        IN
        s1.out = "BudgetSet" =>
            /\ BudgetsOf(s1.db, n) = {row}
            /\ s1.db.budget_calculator \ {row} = budget_calculator \ BudgetsOf(DB, n)
            /\ \A v2 \in {1, 2}, t2 \in {INCOME, EXPENSE} :
                  LET s2 == budget_menu_set(s1.db, n, v2, t2, <<"y">>) IN
                  /\ s2.out = "BudgetSet"
                  /\ BudgetsOf(s2.db, n) = {BudgetRow(lower(strip(n)), v2, t2)}
                  /\ Cardinality(s2.db.budget_calculator)
                        = Cardinality(s1.db.budget_calculator)

C9_SetBudgetReplaces == []C9_OneRowPerName /\ []C9_Replaced

\* C9 witness: the expense budget of 1 the session started with has been
\* replaced by an income budget of 2 under the same name.
C9_ReplacedAcrossTypes ==
    /\ last.op = "set_budget_for_category"
    /\ last.out = "BudgetSet"
    /\ budget_calculator = {BudgetRow(<<"f">>, 2, INCOME)}
    /\ CategoryRow(<<"f">>, NULL) \in expense_categories

\* C10: setBudget with a value > 0 and a valid type for a category that is
\* not registered under that type, with the confirmation answered no,
\* reports that the budget was not set and changes no table: no budget row,
\* no category row.
C10_Declined ==
    \A n \in BudgetNameInputs, v \in {1, 2}, t \in TypeInputs, y \in Answers \cup {<<>>} :
        (/\ lower(strip(t)) \in {INCOME, EXPENSE}
         /\ lower(strip(y)) # <<"y">>
         /\ \A r \in CategoryTable(DB, lower(strip(t))) :
               lower(strip(r.name_of_category)) # lower(strip(n))) =>
            /\ budget_menu_set(DB, n, v, t, y) = Result(DB, "BudgetNotSet", <<>>)
            /\ set_budget_for_category(DB, n, v, t, y) = Result(DB, "BudgetNotSet", <<>>)

C10_DeclinedStep ==
    (last'.op = "set_budget_for_category" /\ last'.out = "BudgetNotSet") =>
        /\ tables' = tables
        /\ sqlite_sequence' = sqlite_sequence

C10_DeclinedIsNoOp == []C10_Declined /\ [][C10_DeclinedStep]_vars

\* C10 witness: with a budget stored, setBudget for an unregistered category
\* was declined.
C10_DeclinedHappened ==
    /\ last.op = "set_budget_for_category"
    /\ last.out = "BudgetNotSet"
    /\ budget_calculator # {}

\* The type texts that are neither income nor expense once normalized.
InvalidTypeInputs == {t \in TypeInputs : lower(strip(t)) \notin {INCOME, EXPENSE}}

C11_TypedRows ==
    \A r \in budget_calculator : r.type_of_category \in {INCOME, EXPENSE}

C11_InvalidTypeRefused ==
    \A n \in BudgetNameInputs, v \in Amounts, t \in InvalidTypeInputs, y \in Answers :
        IF v > 0
        THEN /\ set_budget_for_category(DB, n, v, t, y)
                   = Result(DB, "InvalidCategoryType", <<>>)
             /\ budget_menu_set(DB, n, v, t, y) = Result(DB, "InvalidCategoryType", <<>>)
        ELSE /\ set_budget_for_category(DB, n, v, t, y)
                   = Result(DB, "InvalidAmount", <<v>>)
             /\ budget_menu_set(DB, n, v, t, y) = Result(DB, "InvalidAmount", <<v>>)

C11_InvalidTypeStep ==
    (last'.op = "set_budget_for_category" /\ last'.out = "InvalidCategoryType") =>
        /\ tables' = tables
        /\ sqlite_sequence' = sqlite_sequence

C12_Outcome(db, n, t) ==
    LET r == budget_menu_view(db, n, t)
        registered == \E c \in CategoryTable(db, t) :
                          c.name_of_category = lower(strip(n))
        rows == {b \in db.budget_calculator :
                    /\ b.name_of_category = lower(strip(n))
                    /\ b.type_of_category = t}
    IN
    /\ r.db = db
    /\ ~registered => r.out = "CategoryNotFound"
    /\ (registered /\ rows = {}) => r.out = "NoBudget"
    /\ (registered /\ rows # {}) =>
          /\ r.out = "Budget"
          /\ \E b \in rows : r.info = <<b.budget_value>>

C12_Outcomes ==
    \A n \in BudgetNameInputs :
        /\ \A t \in {INCOME, EXPENSE} : C12_Outcome(DB, n, t)
        /\ \A v1 \in {1, 2}, v2 \in {1, 2} :
              LET s1 == budget_menu_set(DB, n, v1, EXPENSE, <<"y">>)
                  s2 == budget_menu_set(s1.db, n, v2, INCOME, <<"y">>)
              IN
              /\ s1.out = "BudgetSet"
              /\ s2.out = "BudgetSet"
              /\ budget_menu_view(s2.db, n, INCOME) = Result(s2.db, "Budget", <<v2>>)
              /\ budget_menu_view(s2.db, n, EXPENSE) = Result(s2.db, "NoBudget", <<>>)

C12_ThreeOutcomes == []C12_Outcomes

\* C12 witness: the budget of f is stored with type income, f is an expense
\* category as well, and the expense budget of f was viewed: no budget.
C12_NoBudgetShown ==
    /\ last.op = "display_category_budget"
    /\ last.out = "NoBudget"
    /\ BudgetRow(<<"f">>, 2, INCOME) \in budget_calculator
    /\ CategoryRow(<<"f">>, NULL) \in expense_categories

\* The expense rows that stay when category c is deleted, in their order.
OtherExpenses(rows, c) ==
    SelectSeq(rows, LAMBDA r : lower(strip(r.type_of_spending)) # c)

\* The database after an empty category name was registered on the way of
\* setBudget and an expense was recorded under it.
WithEmptyCategory(db) ==
    record_new_spending(
        set_budget_for_category(db, <<>>, 1, EXPENSE, <<"y">>).db,
        <<Mar01>>, <<>>, <<"n">>, <<1>>).db

C13_Delete(db, n) ==
    LET c == lower(strip(n))
        r == delete_spending_type(db, n, <<"y">>)
    IN
    IF OtherExpenses(db.users_expenses, c) # db.users_expenses
    THEN /\ r.out = "Deleted"
         /\ r.db = [db EXCEPT !.users_expenses = OtherExpenses(@, c)]
    ELSE r = Result(db, "NothingToDelete", <<>>)

\* C13 as stated: for every c, deleteExpensesByCategory(c) confirmed removes
\* all and only the expense rows whose normalized category is the
\* normalized c and changes nothing else; when no row matches it reports
\* nothing-to-delete and no table changes.
C13_DeleteAllAndOnly ==
    \A n \in NameInputs : C13_Delete(DB, n) /\ C13_Delete(WithEmptyCategory(DB), n)

\* C13, amended: the same for every c that is not empty once normalized,
\* the removal being one step; an empty c is refused as an empty type and no
\* table changes, also when expense rows with the empty category are stored.
C13_DeleteNonEmpty ==
    \A n \in NameInputs, db \in {DB, WithEmptyCategory(DB)} :
        IF lower(strip(n)) # <<>>
        THEN C13_Delete(db, n)
        ELSE delete_spending_type(db, n, <<"y">>) = Result(db, "EmptyType", <<>>)

C13_DeleteStep ==
    (last'.op = "delete_spending_type") =>
        /\ <<users_incomes', budget_calculator', saving_goals', income_categories',
             expense_categories'>>
              = <<users_incomes, budget_calculator, saving_goals, income_categories,
                  expense_categories>>
        /\ IF last'.out = "Deleted"
           THEN \E n \in NameInputs :
                   /\ users_expenses' = OtherExpenses(users_expenses, lower(strip(n)))
                   /\ users_expenses' # users_expenses
           ELSE users_expenses' = users_expenses

C13_DeleteByCategory == []C13_DeleteNonEmpty /\ [][C13_DeleteStep]_vars

\* C13 witness: expenses of two categories were stored, the category f was
\* deleted and the expense of category g is still there.
C13_OneCategoryDeleted ==
    /\ last.op = "delete_spending_type"
    /\ last.out = "Deleted"
    /\ Len(users_expenses) = 1
    /\ users_expenses[1].type_of_spending = <<"g">>

\* C14: bulk deletion by category happens only with confirmation: for
\* deleteExpensesByCategory and deleteIncomeByCategory, when matching rows
\* exist and the confirmation is anything other than yes, no row is removed
\* and the expense and income tables are unchanged.
C14_Unconfirmed ==
    \A n \in NameInputs, y \in Answers \cup {<<>>, <<"y", "e", "s">>} :
        lower(strip(y)) # <<"y">> =>
            LET e == delete_spending_type(DB, n, y)
                i == delete_income_type(DB, n, y)
            IN
            /\ e.db = DB
            /\ i.db = DB
            /\ e.out # "Deleted"
            /\ i.out # "Deleted"
            /\ (\E k \in DOMAIN users_incomes :
                   users_incomes[k].source_of_income = lower(strip(n)))
                  => i.out = "Cancelled"
            /\ (\E k \in DOMAIN users_expenses :
                   /\ users_expenses[k].type_of_spending = lower(strip(n))
                   /\ lower(strip(n)) # <<>>)
                  => e.out = "Cancelled"

C14_CancelledStep ==
    (last'.op \in {"delete_spending_type", "delete_income_type"}
        /\ last'.out # "Deleted") =>
            /\ users_expenses' = users_expenses
            /\ users_incomes' = users_incomes

C14_OnlyWithConfirmation == []C14_Unconfirmed /\ [][C14_CancelledStep]_vars

\* C14 witness: incomes are stored and the deletion of their source was
\* answered with something other than yes.
C14_Cancelled ==
    /\ last.op = "delete_income_type"
    /\ last.out = "Cancelled"
    /\ users_incomes # <<>>

\* C15: recordExpense with a category not registered in the expense
\* namespace and the creation offer declined is a no-op: no expense row and
\* no category row is written.  On success it appends exactly one expense
\* row whose id differs from the id of every row already stored, and leaves
\* every stored expense row unchanged.
C15_Record ==
    \A d \in DateAttempts, n \in NameInputs :
        LET declined == record_new_spending(DB, d, n, <<"n">>, <<1>>)
            r == record_new_spending(DB, d, n, <<"y">>, <<1>>)
            registered == \E c \in expense_categories :
                              c.name_of_category = lower(strip(n))
        IN
        /\ ~registered => /\ declined.db = DB
                          /\ declined.out \in {"NoValidDate", "NotRecorded"}
        /\ r.out = "Recorded" =>
              LET rows == r.db.users_expenses IN
              /\ Len(rows) = Len(users_expenses) + 1
              /\ SubSeq(rows, 1, Len(users_expenses)) = users_expenses
              /\ \A i \in DOMAIN users_expenses : rows[Len(rows)].id # users_expenses[i].id

C15_RecordStep ==
    (last'.op = "record_new_spending") =>
        IF last'.out = "Recorded"
        THEN /\ Len(users_expenses') = Len(users_expenses) + 1
             /\ SubSeq(users_expenses', 1, Len(users_expenses)) = users_expenses
             /\ \A i \in DOMAIN users_expenses :
                   users_expenses'[Len(users_expenses')].id # users_expenses[i].id
        ELSE /\ users_expenses' = users_expenses
             /\ last'.out = "NotRecorded" => tables' = tables

C15_RecordExpense == []C15_Record /\ [][C15_RecordStep]_vars

\* C15 witness: an expense was recorded after the only expense stored before
\* it had been deleted, and its id is not the id that expense had.
C15_RecordedAfterDelete ==
    /\ last.op = "record_new_spending"
    /\ last.out = "Recorded"
    /\ Len(users_expenses) = 1
    /\ users_expenses[1].id = 2

\* C16: in every reachable state the source of every income row is a name
\* of the income category registry, also when the source entered is the
\* empty text or when the creation of the category adds no row.
C16_SourceRegistered ==
    \A i \in DOMAIN users_incomes :
        \E c \in income_categories :
            c.name_of_category = users_incomes[i].source_of_income

\* The ids typed that are numbers.
NumericIds == {i \in IdInputs : strip(i) # <<>> /\ AllDigits(strip(i))}

\* The rows of a table but for the amount of the row with the given id.
ExpensesBut(rows, id) ==
    [i \in DOMAIN rows |-> IF rows[i].id = id THEN [rows[i] EXCEPT !.amount_spent = 0]
                                              ELSE rows[i]]

IncomesBut(rows, id) ==
    [i \in DOMAIN rows |-> IF rows[i].id = id THEN [rows[i] EXCEPT !.sum_of_income = 0]
                                              ELSE rows[i]]

C17_Matching(i) ==
    LET id == Num(strip(i))
        e == update_my_spending(DB, i, 2)
        u == update_my_income(DB, i, <<2>>)
    IN
    /\ (\E k \in DOMAIN users_expenses : users_expenses[k].id = id) =>
          /\ e.out = "Updated"
          /\ e.db = [DB EXCEPT !.users_expenses = e.db.users_expenses]
          /\ ExpensesBut(e.db.users_expenses, id) = ExpensesBut(users_expenses, id)
          /\ \A k \in DOMAIN users_expenses :
                users_expenses[k].id = id => e.db.users_expenses[k].amount_spent = 2
    /\ (\E k \in DOMAIN users_incomes : users_incomes[k].id = id) =>
          /\ u.out = "Updated"
          /\ u.db = [DB EXCEPT !.users_incomes = u.db.users_incomes]
          /\ IncomesBut(u.db.users_incomes, id) = IncomesBut(users_incomes, id)
          /\ \A k \in DOMAIN users_incomes :
                users_incomes[k].id = id => u.db.users_incomes[k].sum_of_income = 2

\* C17 as stated: updateExpenseAmount with an id that matches no expense row
\* reports not-found and changes nothing; with a matching id it changes only
\* the amount of that one row; updateIncomeAmount behaves the same.
C17_UpdateFrame ==
    \A i \in NumericIds :
        /\ C17_Matching(i)
        /\ (\A k \in DOMAIN users_expenses : users_expenses[k].id # Num(strip(i)))
              => update_my_spending(DB, i, 2) = Result(DB, "NotFound", <<>>)
        /\ (\A k \in DOMAIN users_incomes : users_incomes[k].id # Num(strip(i)))
              => update_my_income(DB, i, <<2>>) = Result(DB, "NotFound", <<>>)

\* C17, amended: the same, but that updateIncomeAmount refuses the id 0 as
\* an invalid id where updateExpenseAmount reports it as not found; an id
\* that is no number is refused as invalid by both, and nothing changes.
C17_UpdateFrameFrom1 ==
    /\ \A i \in NumericIds :
          /\ C17_Matching(i)
          /\ (\A k \in DOMAIN users_expenses : users_expenses[k].id # Num(strip(i)))
                => update_my_spending(DB, i, 2) = Result(DB, "NotFound", <<>>)
          /\ (\A k \in DOMAIN users_incomes : users_incomes[k].id # Num(strip(i)))
                => update_my_income(DB, i, <<2>>)
                      = Result(DB, IF Num(strip(i)) = 0 THEN "InvalidId" ELSE "NotFound",
                               <<>>)
    /\ \A i \in IdInputs \ NumericIds :
          /\ update_my_spending(DB, i, 2) = Result(DB, "InvalidId", <<>>)
          /\ update_my_income(DB, i, <<2>>) = Result(DB, "InvalidId", <<>>)

C17_UpdateStep ==
    /\ (last'.op = "update_my_spending") =>
          /\ Len(users_expenses') = Len(users_expenses)
          /\ \E id \in 0..MaxRows + 1 :
                ExpensesBut(users_expenses', id) = ExpensesBut(users_expenses, id)
          /\ last'.out # "Updated" => users_expenses' = users_expenses
          /\ <<users_incomes', budget_calculator', saving_goals', income_categories',
               expense_categories', sqlite_sequence'>>
                = <<users_incomes, budget_calculator, saving_goals, income_categories,
                    expense_categories, sqlite_sequence>>
    /\ (last'.op = "update_my_income") =>
          /\ Len(users_incomes') = Len(users_incomes)
          /\ \E id \in 0..MaxRows + 1 :
                IncomesBut(users_incomes', id) = IncomesBut(users_incomes, id)
          /\ last'.out # "Updated" => users_incomes' = users_incomes
          /\ <<users_expenses', budget_calculator', saving_goals', income_categories',
               expense_categories', sqlite_sequence'>>
                = <<users_expenses, budget_calculator, saving_goals, income_categories,
                    expense_categories, sqlite_sequence>>

C17_UpdateOnlyAmount == []C17_UpdateFrameFrom1 /\ [][C17_UpdateStep]_vars

\* C17 witness: two expenses are stored and the amount of the second was
\* updated to 2; the first still has the amount 1 it was recorded with.
C17_SecondUpdated ==
    /\ last.op = "update_my_spending"
    /\ last.out = "Updated"
    /\ Len(users_expenses) = 2
    /\ users_expenses[1].amount_spent = 1
    /\ users_expenses[2].amount_spent = 2

(***************************************************************************)
(* C18: the monthly summary.                                               *)
(***************************************************************************)
SameMonth(date_text, now) ==
    /\ validate_date(date_text)
    /\ strptime(date_text)[1] = strptime(now)[1]
    /\ strptime(date_text)[2] = strptime(now)[2]

\* C18: the monthly summary of a reference date reports as expenses the sum
\* of exactly the stored expense rows whose accepted date has the year and the
\* month of the reference date, as income the sum of exactly such income rows,
\* and as balance the income less the expenses; nothing stored gives 0.
C18_MonthlySummary ==
    \A now \in Nows :
        LET r == income_expenses_summary(DB, MONTHLY, now)
            income == SumSeq(IncomeAmounts(SelectSeq(users_incomes,
                          LAMBDA row : SameMonth(row.date_of_income, now))))
            expenses == SumSeq(ExpenseAmounts(SelectSeq(users_expenses,
                            LAMBDA row : SameMonth(row.date_of_spending, now))))
        IN /\ r.out = "Summary"
           /\ r.info = <<income, expenses, income - expenses>>

(***************************************************************************)
(* C19: the breakdown by category and by source.                           *)
(***************************************************************************)
RECURSIVE SumEntries(_)
SumEntries(entries) ==
    IF entries = {} THEN 0
    ELSE LET e == CHOOSE x \in entries : TRUE
         IN e[2] + SumEntries(entries \ {e})

\* keys and amounts are the category (or source) and the amount of the rows,
\* row by row; entries is the mapping reported for them.
C19_Grouped(keys, amounts, entries, total) ==
    LET AmountsOf(c) ==
            SumSeq(SelectSeq([i \in DOMAIN keys |-> IF SqlLowerTrim(keys[i]) = c
                                                    THEN amounts[i] ELSE 0],
                             LAMBDA a : TRUE))
    IN /\ \A i \in DOMAIN keys :
              Cardinality({e \in entries : SqlLowerTrim(e[1]) = SqlLowerTrim(keys[i])}) = 1
       /\ \A e \in entries :
              /\ \E i \in DOMAIN keys : SqlLowerTrim(keys[i]) = SqlLowerTrim(e[1])
              /\ e[2] = AmountsOf(SqlLowerTrim(e[1]))
       /\ SumEntries(entries) = total
       /\ keys = <<>> => entries = {} /\ total = 0

C19_Breakdown(info) ==
    /\ C19_Grouped([i \in DOMAIN users_expenses |-> users_expenses[i].type_of_spending],
                   ExpenseAmounts(users_expenses), info[1],
                   magical_budget_calculator(DB).info[2])
    /\ C19_Grouped([i \in DOMAIN users_incomes |-> users_incomes[i].source_of_income],
                   IncomeAmounts(users_incomes), info[2],
                   magical_budget_calculator(DB).info[1])

C19_BreakdownStep ==
    last'.op = "type_of_spending_and_income" =>
        /\ last'.out = "Breakdown"
        /\ last'.info = type_of_spending_and_income(DB).info
        /\ UNCHANGED <<tables, sqlite_sequence>>

\* C19: the breakdown has one entry per distinct normalized category among
\* the stored expense rows, with the sum of the amounts of that category's
\* rows; the entries add up to the total of the expenses; the same holds by
\* source for the incomes and their total; with no rows the mapping is empty
\* and the total is 0.
C19_BreakdownByCategory ==
    /\ [](C19_Breakdown(type_of_spending_and_income(DB).info))
    /\ [][C19_BreakdownStep]_vars

\* C19 witness: the breakdown was shown for two expenses of one category, and
\* its entry for that category is the sum 2 of their amounts.
C19_TwoRowsOneEntry ==
    /\ last.op = "type_of_spending_and_income"
    /\ Len(users_expenses) = 2
    /\ users_expenses[1].type_of_spending = users_expenses[2].type_of_spending
    /\ users_expenses[1].amount_spent = 1
    /\ users_expenses[2].amount_spent = 1
    /\ last.info[1] = {<<users_expenses[1].type_of_spending, 2>>}

(***************************************************************************)
(* C20: the monthly trend.                                                 *)
(***************************************************************************)
\* C20: the trend has one pair per distinct year and month among the stored
\* expense rows, with the total of the rows of that month, in ascending order
\* of the year-month key.
C20_MonthlyTrend ==
    LET trend == trends_for_tracking_spending(DB).info
        MonthOf(date_text) == <<strptime(date_text)[1], strptime(date_text)[2]>>
        KeyMonth(key) == <<Num(key[1]), Num(key[2])>>
    IN /\ \A k \in DOMAIN trend :
              /\ Len(trend[k][1]) = 2
              /\ trend[k][2] =
                     SumSeq(ExpenseAmounts(SelectSeq(users_expenses,
                         LAMBDA row : MonthOf(row.date_of_spending) = KeyMonth(trend[k][1]))))
       /\ \A i \in DOMAIN users_expenses :
              \E k \in DOMAIN trend :
                  /\ Len(trend[k][1]) = 2
                  /\ KeyMonth(trend[k][1]) = MonthOf(users_expenses[i].date_of_spending)
       /\ \A j, k \in DOMAIN trend :
              j < k => /\ Len(trend[j][1]) = 2
                       /\ Len(trend[k][1]) = 2
                       /\ \/ Num(trend[j][1][1]) < Num(trend[k][1][1])
                          \/ /\ Num(trend[j][1][1]) = Num(trend[k][1][1])
                             /\ Num(trend[j][1][2]) < Num(trend[k][1][2])

(***************************************************************************)
(* C21: the form of the stored dates.                                      *)
(***************************************************************************)
Canonical(date_text) ==
    /\ Len(date_text) = 3
    /\ Len(date_text[1]) = 4
    /\ Len(date_text[2]) = 2
    /\ Len(date_text[3]) = 2

\* C21: a date text is accepted if and only if it has a 4-digit year, a
\* 2-digit month and a 2-digit day and is a real calendar date; so the date of
\* every stored expense and income row has that zero-padded form.
C21_StoredDatesCanonical ==
    /\ \A d \in {Mar01, Mar5, Apr01, Feb30} :
           validate_date(d) <=> (Canonical(d) /\ d # Feb30)
    /\ \A i \in DOMAIN users_expenses :
           Canonical(users_expenses[i].date_of_spending)
    /\ \A i \in DOMAIN users_incomes :
           Canonical(users_incomes[i].date_of_income)

(***************************************************************************)
(* C22: names are normalized before every comparison and every write.      *)
(***************************************************************************)
Normalized(text) == text = lower(strip(text))

C22_StoredNormalized ==
    /\ \A r \in expense_categories \cup income_categories : Normalized(r.name_of_category)
    /\ \A r \in budget_calculator :
           Normalized(r.name_of_category) /\ Normalized(r.type_of_category)
    /\ \A i \in DOMAIN users_expenses : Normalized(users_expenses[i].type_of_spending)
    /\ \A i \in DOMAIN users_incomes : Normalized(users_incomes[i].source_of_income)

\* Two texts that differ by letter case and by surrounding whitespace.
C22_Typed == <<" ", "F", " ">>
C22_Plain == <<"f">>

\* Each operation of the menu the user is in, run with the one text and with
\* the other.
C22_SameEntity ==
    /\ \A t \in {INCOME, EXPENSE} :
           existing_category(DB, C22_Typed, t) = existing_category(DB, C22_Plain, t)
    /\ menu = "expenses" =>
           /\ expenses_menu_add(DB, C22_Typed) = expenses_menu_add(DB, C22_Plain)
           /\ record_new_spending(DB, <<Mar01>>, C22_Typed, YES, <<1>>)
                  = record_new_spending(DB, <<Mar01>>, C22_Plain, YES, <<1>>)
           /\ delete_spending_type(DB, C22_Typed, YES) = delete_spending_type(DB, C22_Plain, YES)
           /\ check_expenses(DB, <<"2">>, C22_Typed, <<>>)
                  = check_expenses(DB, <<"2">>, C22_Plain, <<>>)
    /\ menu = "income" =>
           /\ add_income_category(DB, NULL, C22_Typed, <<>>)
                  = add_income_category(DB, NULL, C22_Plain, <<>>)
           /\ record_an_income(DB, <<Mar01>>, C22_Typed, YES, <<>>, <<>>, <<1>>)
                  = record_an_income(DB, <<Mar01>>, C22_Plain, YES, <<>>, <<>>, <<1>>)
           /\ delete_income_type(DB, C22_Typed, YES) = delete_income_type(DB, C22_Plain, YES)
           /\ check_income(DB, <<"2">>, C22_Typed) = check_income(DB, <<"2">>, C22_Plain)
    /\ menu = "budget" =>
           \A t \in {INCOME, EXPENSE} :
               /\ budget_menu_set(DB, C22_Typed, 2, t, YES) = budget_menu_set(DB, C22_Plain, 2, t, YES)
               /\ budget_menu_view(DB, C22_Typed, t) = budget_menu_view(DB, C22_Plain, t)

C22_WriteStep ==
    last'.op \in {"add_expense_category", "add_income_category", "record_new_spending",
                  "record_an_income", "set_budget_for_category"}
        => C22_StoredNormalized'

\* C22: two category names that differ only by letter case or surrounding
\* whitespace are the same entity to the category check, to the additions of
\* a category, to setting and viewing a budget, to recording an expense or an
\* income and to deleting and viewing by category; every name stored in the
\* category, budget, expense and income tables is trimmed and in lower case.
C22_NamesNormalized ==
    /\ [](C22_StoredNormalized /\ C22_SameEntity)
    /\ [][C22_WriteStep]_vars

\* C22 witness: two expenses of one date are stored, one of category f that
\* was typed as ' F ', one of another category, and the view by category
\* showed the one of category f alone.
C22_ViewedByTypedName ==
    /\ last.op = "check_expenses"
    /\ last.out = "Found"
    /\ Len(users_expenses) = 2
    /\ users_expenses[1].date_of_spending = users_expenses[2].date_of_spending
    /\ users_expenses[1].type_of_spending = C22_Plain
    /\ users_expenses[2].type_of_spending # C22_Plain
    /\ last.info = <<users_expenses[1]>>

(***************************************************************************)
(* C23: every budget row refers to a registered category.                  *)
(***************************************************************************)
NamesIn(categories) == {r.name_of_category : r \in categories}

Registry(type) == IF type = INCOME THEN income_categories ELSE expense_categories

C23_BudgetsRegistered ==
    \A r \in budget_calculator :
        /\ r.type_of_category \in {INCOME, EXPENSE}
        /\ r.name_of_category \in NamesIn(Registry(r.type_of_category))

C23_CategoriesStay ==
    /\ NamesIn(expense_categories) \subseteq NamesIn(expense_categories')
    /\ NamesIn(income_categories) \subseteq NamesIn(income_categories')

\* C23: each budget row (name, type) refers to a category registered in the
\* namespace of its type, and no step removes a category row.
C23_BudgetRefersToCategory ==
    /\ []C23_BudgetsRegistered
    /\ [][C23_CategoriesStay]_vars

\* C23 witness: a budget was set for f as income, on a database whose income
\* registry had no f before; the category was created on confirmation.
C23_CreatedOnConfirmation ==
    /\ last.op = "set_budget_for_category"
    /\ last.out = "BudgetSet"
    /\ BudgetRow(<<"f">>, 2, INCOME) \in budget_calculator
    /\ <<"f">> \in NamesIn(income_categories)

(***************************************************************************)
(* C24: no namespace holds a category twice.                               *)
(***************************************************************************)
C24_OneRowPerCategory ==
    \A t \in {INCOME, EXPENSE} :
        \A r1, r2 \in Registry(t) :
            lower(strip(r1.name_of_category)) = lower(strip(r2.name_of_category))
                => r1 = r2

\* The INSERT of add_category runs when existing_category finds nothing: then
\* the namespace has no row of that name.
C24_InsertIsFresh ==
    \A n \in BudgetNameInputs \cup NameInputs, t \in {INCOME, EXPENSE} :
        ~existing_category(DB, n, t) => lower(strip(n)) \notin NamesIn(Registry(t))

C24_CreationStep ==
    \A t \in {INCOME, EXPENSE} :
        Cardinality(NamesIn(Registry(t))') = Cardinality(Registry(t)')

\* C24: no namespace holds two category rows with the same normalized name,
\* whether the row came from the explicit addition, from the offer of a
\* record operation or from the offer of setBudget, whose insert runs only for
\* a name that the namespace does not hold.
C24_NoDuplicateCategory ==
    /\ [](C24_OneRowPerCategory /\ C24_InsertIsFresh)
    /\ [][C24_CreationStep]_vars

\* C24 witness: a budget was set where the expense registry holds f, added
\* explicitly, and the empty name, created by the offer of setBudget: two
\* rows, two names.
C24_CreatedBySetBudget ==
    /\ last.op = "set_budget_for_category"
    /\ last.out = "BudgetSet"
    /\ NamesIn(expense_categories) = {<<"f">>, <<>>}
    /\ Cardinality(expense_categories) = 2

(***************************************************************************)
(* C25: the category of every expense row is registered.                   *)
(***************************************************************************)
C25_ExpensesRegistered ==
    \A i \in DOMAIN users_expenses :
        users_expenses[i].type_of_spending \in NamesIn(expense_categories)

C25_RecordStep ==
    /\ (last'.op = "record_new_spending" /\ last'.out = "CategoryNotAdded")
           => users_expenses' = users_expenses
    /\ NamesIn(expense_categories) \subseteq NamesIn(expense_categories')

\* C25: the category of every stored expense row is a name of the expense
\* registry; recordExpense writes no row when the category is still absent
\* after an accepted offer to create it, and no step removes a category.
C25_ExpenseCategoryRegistered ==
    /\ []C25_ExpensesRegistered
    /\ [][C25_RecordStep]_vars

\* C25 witness: an expense of the empty category was offered its creation,
\* the offer was accepted, nothing was created and no row was written.
C25_EmptyCategoryNotRecorded ==
    /\ last.op = "record_new_spending"
    /\ last.out = "CategoryNotAdded"
    /\ <<>> \notin NamesIn(expense_categories)
    /\ \A i \in DOMAIN users_expenses : users_expenses[i].type_of_spending # <<>>

(***************************************************************************)
(* C26: what the deletions by category leave alone.                        *)
(***************************************************************************)
C26_OnlyExpenses(db) == [db EXCEPT !.users_expenses = users_expenses] = DB
C26_OnlyIncomes(db) == [db EXCEPT !.users_incomes = users_incomes] = DB

C26_Frame ==
    \A n \in NameInputs :
        /\ C26_OnlyExpenses(delete_spending_type(DB, n, YES).db)
        /\ C26_OnlyIncomes(delete_income_type(DB, n, YES).db)

C26_DeleteStep ==
    /\ last'.op = "delete_spending_type" =>
           UNCHANGED <<users_incomes, budget_calculator, saving_goals,
                       income_categories, expense_categories, sqlite_sequence>>
    /\ last'.op = "delete_income_type" =>
           UNCHANGED <<users_expenses, budget_calculator, saving_goals,
                       income_categories, expense_categories, sqlite_sequence>>

\* C26: the deletion of the expenses of a category changes only the expense
\* table and the deletion of the incomes of a source only the income table:
\* the category of the deleted name stays registered and the budget table,
\* the goal table and the other transaction table are unchanged.
C26_DeleteChangesOneTable ==
    /\ []C26_Frame
    /\ [][C26_DeleteStep]_vars

\* C26 witness: the incomes of source g were deleted; g is still an income
\* category, and the expense, the budget and the goal of the database are
\* still stored.
C26_IncomesDeletedCategoryKept ==
    /\ last.op = "delete_income_type"
    /\ last.out = "Deleted"
    /\ users_incomes = <<>>
    /\ <<"g">> \in NamesIn(income_categories)
    /\ users_expenses # <<>>
    /\ budget_calculator # {}
    /\ saving_goals # <<>>

(***************************************************************************)
(* C27: a contribution reaches every goal of the name.                     *)
(***************************************************************************)
\* The goals named n, by position, and the one created first.
C27_Named(n) == {i \in DOMAIN saving_goals : saving_goals[i].name_of_goal = n}
C27_First(n) == CHOOSE i \in C27_Named(n) : \A j \in C27_Named(n) : i <= j

\* goals is the goal table that a contribution of a to the name n leaves.
C27_Applied(goals, n, a) ==
    /\ DOMAIN goals = DOMAIN saving_goals
    /\ \A i \in DOMAIN saving_goals :
          IF i \in C27_Named(n)
          THEN goals[i] = [saving_goals[i] EXCEPT
                              !.saved_up_so_far =
                                  a + saving_goals[C27_First(n)].saved_up_so_far]
          ELSE goals[i] = saving_goals[i]

C27_ByName ==
    \A n \in GoalNameInputs, a \in {1, 2} :
        LET r == goals_menu_browse(DB, n, YES, a) IN
        r.out = "Added" => C27_Applied(r.db.saving_goals, lower(strip(n)), a)

C27_ContributionStep ==
    (last'.op = "browse_goal_progress" /\ last'.out = "Added") =>
        \E n \in GoalNames, a \in {1, 2} : C27_Applied(saving_goals', n, a)

\* C27: right after a successful contribution of a to the goal name n, every
\* stored goal named n has the same saved_up_so_far, a more than the goal of
\* that name created first had before, and the goals of other names are
\* unchanged.
C27_ContributionByName ==
    /\ []C27_ByName
    /\ [][C27_ContributionStep]_vars

\* C27 witness: two goals have the name g, and a contribution to g has just
\* left both with the savings 1.
C27_BothGoalsRaised ==
    /\ last.op = "browse_goal_progress"
    /\ last.out = "Added"
    /\ Len(saving_goals) = 2
    /\ \A i \in 1..2 : /\ saving_goals[i].name_of_goal = <<"g">>
                       /\ saving_goals[i].saved_up_so_far = 1

(***************************************************************************)
(* C28: a completed goal takes no contribution.                            *)
(***************************************************************************)
C28_Completed(n) ==
    /\ C27_Named(n) # {}
    /\ saving_goals[C27_First(n)].saved_up_so_far
           >= saving_goals[C27_First(n)].monthly_target_amount

C28_Refused ==
    \A n \in GoalNameInputs, a \in {1, 2} :
        C28_Completed(lower(strip(n))) =>
            /\ goals_menu_browse(DB, n, YES, a).out = "Completed"
            /\ goals_menu_browse(DB, n, YES, a).db = DB

\* last'.info of an accepted contribution is <<target, saved before,
\* remaining before, remaining after>>.
C28_Step ==
    \A n \in GoalNames :
        /\ C28_Completed(n) =>
               \A i \in C27_Named(n) :
                   saving_goals'[i].saved_up_so_far = saving_goals[i].saved_up_so_far
        /\ (\E i \in C27_Named(n) :
                saving_goals'[i].saved_up_so_far # saving_goals[i].saved_up_so_far) =>
               /\ last'.op = "browse_goal_progress"
               /\ last'.out = "Added"
               /\ ~C28_Completed(n)
               /\ saving_goals'[C27_First(n)].saved_up_so_far
                      < saving_goals[C27_First(n)].monthly_target_amount
                            + (last'.info[3] - last'.info[4])

\* C28: a contribution is accepted only while the goal read for the name is
\* short of its target; once that goal has saved_up_so_far >= target no step
\* changes the saved_up_so_far of any goal of that name, and what an accepted
\* contribution leaves is less than the target plus that contribution.
C28_NoContributionOnceCompleted ==
    /\ []C28_Refused
    /\ [][C28_Step]_vars

\* C28 witness: the goal was browsed after its savings had passed its target
\* of 2 with 3, and it was reported as completed.
C28_CompletedGoalBrowsed ==
    /\ last.op = "browse_goal_progress"
    /\ last.out = "Completed"
    /\ last.info = <<2, 3, -1>>

(***************************************************************************)
(* C29: the ids of the expense and the income rows.                        *)
(***************************************************************************)
Ids(rows) == {rows[i].id : i \in DOMAIN rows}

\* The rows are in order of creation.
C29_Increasing(rows) ==
    \A i, j \in DOMAIN rows : i < j => rows[i].id < rows[j].id

\* given is the largest id given so far in the table.
C29_IdsInOrder ==
    /\ C29_Increasing(users_expenses)
    /\ C29_Increasing(users_incomes)
    /\ \A id \in Ids(users_expenses) : id <= sqlite_sequence.users_expenses
    /\ \A id \in Ids(users_incomes) : id <= sqlite_sequence.users_incomes

C29_IdStep ==
    /\ sqlite_sequence'.users_expenses >= sqlite_sequence.users_expenses
    /\ sqlite_sequence'.users_incomes >= sqlite_sequence.users_incomes
    /\ \A id \in Ids(users_expenses') \ Ids(users_expenses) :
           id > sqlite_sequence.users_expenses
    /\ \A id \in Ids(users_incomes') \ Ids(users_incomes) :
           id > sqlite_sequence.users_incomes

\* C29: the ids of the expense rows and of the income rows are unique and
\* increase in order of creation, and none is given twice: a row recorded
\* after a deletion by category gets an id greater than every id given
\* before in its table, not the id of a deleted row.
C29_IdsNeverReused ==
    /\ []C29_IdsInOrder
    /\ [][C29_IdStep]_vars

\* C29 witness: the income with id 1 was deleted with its source, and the
\* income recorded after it is the only row and has id 2.
C29_RecordedAfterDeletion ==
    /\ last.op = "record_an_income"
    /\ last.out = "Recorded"
    /\ Len(users_incomes) = 1
    /\ users_incomes[1].id = 2

(***************************************************************************)
(* C30: the operations that only read.                                     *)
(***************************************************************************)
ReadOnly ==
    {"display_category_budget", "check_expenses", "check_income",
     "magical_budget_calculator", "income_expenses_summary",
     "type_of_spending_and_income", "trends_for_tracking_spending"}

\* A view filtered by category: no row found is the empty result.
C30_View(r, matching) ==
    /\ r.db = DB
    /\ IF matching = <<>> THEN r.out = "NoneFound" /\ r.info = <<>>
       ELSE r.out = "Found" /\ r.info = matching

C30_OfCategory(n) ==
    SelectSeq(users_expenses, LAMBDA row : row.type_of_spending = lower(strip(n)))

\* C30 as stated: the view of the expenses of a category leaves the tables
\* unchanged and, when it matches no row, is the empty result and not an
\* error, for every category name.
C30_EmptyResult ==
    \A n \in NameInputs :
        C30_View(check_expenses(DB, <<"2">>, n, <<>>), C30_OfCategory(n))

C30_Reads ==
    /\ \A n \in NameInputs, t \in {INCOME, EXPENSE} :
           existing_category(DB, n, t) \in BOOLEAN
    /\ menu = "expenses" =>
           /\ C30_View(check_expenses(DB, <<"1">>, <<>>, <<>>), users_expenses)
           /\ \A n \in NameInputs \ {<<>>} :
                  C30_View(check_expenses(DB, <<"2">>, n, <<>>), C30_OfCategory(n))
           /\ check_expenses(DB, <<"2">>, <<>>, <<>>) = Result(DB, "EmptyType", <<>>)
           /\ \A d \in {Mar01, Mar5} :
                  C30_View(check_expenses(DB, <<"3">>, <<>>, d),
                           SelectSeq(users_expenses,
                               LAMBDA row : row.date_of_spending = d))
    /\ menu = "income" =>
           /\ C30_View(check_income(DB, <<"1">>, <<>>), users_incomes)
           /\ \A n \in NameInputs :
                  C30_View(check_income(DB, <<"2">>, n),
                           SelectSeq(users_incomes,
                               LAMBDA row : row.source_of_income = lower(strip(n))))
    /\ menu = "budget" =>
           /\ \A n \in BudgetNameInputs, t \in TypeInputs :
                  /\ budget_menu_view(DB, n, t).db = DB
                  /\ budget_menu_view(DB, n, t).out
                         \in {"Budget", "NoBudget", "CategoryNotFound"}
           /\ magical_budget_calculator(DB).db = DB
           /\ magical_budget_calculator(DB).out = "RemainingBudget"
    /\ menu = "reports" =>
           /\ \A now \in Nows :
                  /\ income_expenses_summary(DB, MONTHLY, now).db = DB
                  /\ income_expenses_summary(DB, MONTHLY, now).out = "Summary"
                  /\ income_expenses_summary(DB, ANNUALLY, now).db = DB
                  /\ income_expenses_summary(DB, ANNUALLY, now).out = "Summary"
           /\ type_of_spending_and_income(DB).db = DB
           /\ users_expenses = <<>> => type_of_spending_and_income(DB).info[1] = {}
           /\ users_incomes = <<>> => type_of_spending_and_income(DB).info[2] = {}
           /\ trends_for_tracking_spending(DB).db = DB
           /\ users_expenses = <<>> => trends_for_tracking_spending(DB).info = <<>>

C30_ReadStep ==
    last'.op \in ReadOnly => UNCHANGED <<tables, sqlite_sequence>>

\* C30, amended: the category check, the view of a budget, the views of the
\* expenses and of the incomes, the totals with the remaining budget, the
\* period summary, the breakdown by category and by source and the monthly
\* trend leave all six tables unchanged; a view that matches no row is an
\* empty result, not an error, except that the view of the expenses of the
\* empty category name is refused as an empty type.
C30_ReadsChangeNothing ==
    /\ []C30_Reads
    /\ [][C30_ReadStep]_vars

\* C30 witness: expenses are stored and a view of the expenses matched none
\* of them.
C30_NoneFoundAmongRows ==
    /\ last.op = "check_expenses"
    /\ last.out = "NoneFound"
    /\ last.info = <<>>
    /\ users_expenses # <<>>

=============================================================================
